---- MODULE Spec2Model ----
(***************************************************************************)
(* Model of the nwcli wallet multiplexer: the SQLite ledger of             *)
(* utils/storage.ts (sub_accounts, pending_invoices), the credential       *)
(* envelope of the same file, and the WalletServiceManager of              *)
(* src/wallet-service-manager.ts (router, handlers, settlement).           *)
(***************************************************************************)
EXTENDS Integers, Sequences, FiniteSets, Bags, TLC

\* ------------------------------------------------------------------ bounds
MaxAccounts == 3      \* sub_accounts row ids are drawn from 1..MaxAccounts
MaxSecret   == 5      \* 32-byte secrets are drawn from 1..MaxSecret
MaxInvoices == 2      \* pending_invoices row ids / payment hashes 1..MaxInvoices
MaxAmount   == 2      \* greatest msat amount of a request, an invoice or a result
MaxRequests == 2      \* wallet requests routed during one run
MaxEvents   == 3      \* request events the router observes on the relay subscription
MaxBalance  == 3      \* settlements are explored while balance_msats stays <= MaxBalance
MaxSeed     == 1      \* sample keys, secrets and ivs are built from seeds 0..MaxSeed
MaxClock    == 2      \* the wall clock runs from unix second 0 to MaxClock

Null == 0             \* SQL NULL / JS undefined for numeric columns

AccountIds == 1..MaxAccounts
Secrets    == 1..MaxSecret
InvoiceIds == 1..MaxInvoices
Amounts    == {1, MaxAmount}   \* amounts of requests and upstream results: least, greatest
Expiries   == {Null, 1}   \* expires_at: absent, or unix second 1
WalletIds  == {1, 2}      \* the sub-accounts present when the service starts

VARIABLES
  db,        \* the SQLite database: sub_accounts, pending_invoices
  lastCall,  \* observation of the most recent direct ledger call and its outcome
  reqs,      \* bag of handlers suspended in an upstream call
  nReq,      \* number of requests routed so far
  lastDone,  \* observation of the most recently completed handler
  nextHash,  \* next payment hash the upstream wallet will issue
  arrived,   \* resolved service key and sender of each event, in the order requests$ emitted them
  queued,    \* per group (service key): events buffered by concatMap
  routing,   \* per group: events whose routeEvent call is in progress
  handed,    \* per group: events pushed to the sub-wallet's Endpoint, in push order
  begun,     \* per group: how many pushed events the Endpoint has taken up
  serviceKeySet, \* the manager's serviceKeySet
  filter,    \* the "#p" keys of the relay subscription switchMap holds now
  active,    \* the outer subscription of start() is alive
  masterKey, \* the storage master key (32 bytes)
  plaintext, \* the buffer most recently passed to encryptBuffer
  payload,   \* the stored envelope, as it is now
  tampered,  \* which part of the stored envelope was altered since it was written
  opened,    \* per altered part: the outcome of decryptBuffer on the envelope
  contextsById,         \* the manager's contextsById map
  contextsByServiceKey, \* the manager's contextsByServiceKey map
  startPc,   \* where start() is: "idle", "loading", "done" or "failed"
  loading,   \* the records start() has read and not yet ensured a context for
  clock,     \* the wall clock, in unix seconds
  lastNotify, \* observation of the most recent context.service.notify call
  settling,  \* the settlePending call in progress, if any, and its next statement
  store      \* nwc.json: the JSON ledger of the HTTP API, for one wallet

routerVars == <<arrived, queued, routing, handed, begun, serviceKeySet, filter, active>>
vaultVars == <<masterKey, plaintext, payload, tampered, opened>>
registryVars == <<contextsById, contextsByServiceKey, startPc, loading>>
serviceVars == <<clock, lastNotify, settling, store>>
extraVars == <<registryVars, serviceVars>>
vars == <<db, lastCall, reqs, nReq, lastDone, nextHash, routerVars, vaultVars, extraVars>>
managerVars == <<reqs, nReq, lastDone, nextHash, routerVars, vaultVars, extraVars>>
walletVars == <<db, lastCall, reqs, nReq, lastDone, nextHash, routerVars, extraVars>>

\* ------------------------------------------------------------ pure helpers
RECURSIVE SumAmounts(_, _)
SumAmounts(S, rows) ==
  IF S = {} THEN 0
  ELSE LET x == CHOOSE y \in S : TRUE
       IN rows[x].amount_msats + SumAmounts(S \ {x}, rows)

RECURSIVE Without(_, _)
Without(seq, x) ==
  IF seq = <<>> THEN <<>>
  ELSE IF Head(seq) = x THEN Without(Tail(seq), x)
       ELSE <<Head(seq)>> \o Without(Tail(seq), x)


\* x-only public key of a secret: k and n-k share one key
getPublicKey(secret) ==
  IF 2 * secret <= MaxSecret THEN secret ELSE MaxSecret + 1 - secret

\* ------------------------------------------------------------ ledger store
\* SELECT COALESCE(SUM(amount_msats),0) ... WHERE sub_account_id AND state='pending'
PendingTotal(d, id) ==
  SumAmounts({i \in DOMAIN d.pending_invoices :
                /\ d.pending_invoices[i].sub_account_id = id
                /\ d.pending_invoices[i].state = "pending"},
             d.pending_invoices)

refreshPendingAggregate(d, id) ==
  IF id \in DOMAIN d.sub_accounts
  THEN [d EXCEPT !.sub_accounts[id].pending_msats = PendingTotal(d, id)]
  ELSE d

\* a supplied secret that is not 64 hex digits
InvalidSecret == MaxSecret + 1

\* an encryptHexSecret that stores whatever it is given
AnySecret(x) == TRUE

\* encryptHexSecret: /^[0-9a-f]+$/ and 64 digits, else it throws
ValidSecret(x) == x \in Secrets

NewSubAccountRow(servicePubkey, clientPubkey) ==
  [service_pubkey |-> servicePubkey, client_pubkey |-> clientPubkey,
   balance_msats |-> 0, pending_msats |-> 0, usage_count |-> 0]

createSubAccountNoUnique(d, id, serviceSecret, clientSecret) ==
  IF id \notin DOMAIN d.sub_accounts
  THEN [d EXCEPT !.sub_accounts =
          [a \in DOMAIN d.sub_accounts \cup {id} |->
             IF a = id
             THEN NewSubAccountRow(getPublicKey(serviceSecret), getPublicKey(clientSecret))
             ELSE d.sub_accounts[a]]]
  ELSE d

\* the INSERT under PRIMARY KEY(id), UNIQUE(service_pubkey), UNIQUE(client_pubkey)
createSubAccount(d, id, serviceSecret, clientSecret) ==
  IF /\ ValidSecret(serviceSecret) /\ ValidSecret(clientSecret)
     /\ id \notin DOMAIN d.sub_accounts
     /\ \A a \in DOMAIN d.sub_accounts :
          /\ d.sub_accounts[a].service_pubkey # getPublicKey(serviceSecret)
          /\ d.sub_accounts[a].client_pubkey # getPublicKey(clientSecret)
  THEN [d EXCEPT !.sub_accounts =
          [a \in DOMAIN d.sub_accounts \cup {id} |->
             IF a = id
             THEN NewSubAccountRow(getPublicKey(serviceSecret), getPublicKey(clientSecret))
             ELSE d.sub_accounts[a]]]
  ELSE d

touchSubAccount(d, id) ==
  IF id \in DOMAIN d.sub_accounts
  THEN [d EXCEPT !.sub_accounts[id].usage_count = @ + 1]
  ELSE d

\* an adjustBalance whose UPDATE has no WHERE clause
adjustBalanceEveryRow(d, id, deltaMsats) ==
  [d EXCEPT !.sub_accounts =
     [a \in DOMAIN @ |-> [@[a] EXCEPT !.balance_msats = @ + deltaMsats]]]

adjustBalance(d, id, deltaMsats) ==
  IF id \in DOMAIN d.sub_accounts
  THEN [d EXCEPT !.sub_accounts[id].balance_msats = @ + deltaMsats]
  ELSE d

\* PRIMARY KEY(id), FOREIGN KEY(sub_account_id) with foreign_keys = ON
InsertPendingAllowed(d, p) ==
  /\ p.id \notin DOMAIN d.pending_invoices
  /\ p.subAccountId \in DOMAIN d.sub_accounts

registerPendingInvoice(d, p) ==
  IF InsertPendingAllowed(d, p)
  THEN refreshPendingAggregate(
         [d EXCEPT !.pending_invoices =
            [i \in DOMAIN d.pending_invoices \cup {p.id} |->
               IF i = p.id
               THEN [sub_account_id |-> p.subAccountId, invoice |-> p.invoice,
                     payment_hash |-> p.paymentHash,
                     description_hash |-> p.descriptionHash,
                     amount_msats |-> p.amountMsats, state |-> "pending",
                     expires_at |-> p.expiresAt, settled_at |-> Null]
               ELSE d.pending_invoices[i]],
          !.updated = Append(d.updated, p.id)],
         p.subAccountId)
  ELSE d

updatePendingInvoiceStateNoRefresh(d, id, state, settledAt) ==
  IF id \in DOMAIN d.pending_invoices
  THEN [d EXCEPT !.pending_invoices[id].state = state,
                 !.pending_invoices[id].settled_at = settledAt,
                 !.updated = Append(Without(d.updated, id), id)]
  ELSE d

updatePendingInvoiceState(d, id, state, settledAt) ==
  IF id \in DOMAIN d.pending_invoices
  THEN refreshPendingAggregate(
         [d EXCEPT !.pending_invoices[id].state = state,
                   !.pending_invoices[id].settled_at = settledAt,
                   !.updated = Append(Without(d.updated, id), id)],
         d.pending_invoices[id].sub_account_id)
  ELSE d

\* WHERE payment_hash = ? OR invoice = ? OR description_hash = ?
\* ORDER BY updated_at DESC LIMIT 1; Null when no row matches
findPendingInvoice(d, c) ==
  LET m == {i \in DOMAIN d.pending_invoices :
              \/ c.paymentHash # Null
                   /\ d.pending_invoices[i].payment_hash = c.paymentHash
              \/ c.invoice # Null /\ d.pending_invoices[i].invoice = c.invoice
              \/ c.descriptionHash # Null
                   /\ d.pending_invoices[i].description_hash = c.descriptionHash}
      pos(i) == CHOOSE k \in 1..Len(d.updated) : d.updated[k] = i
  IN IF m = {} THEN Null
     ELSE CHOOSE i \in m : \A j \in m : pos(j) <= pos(i)

\* SELECT ... WHERE expires_at IS NOT NULL AND expires_at <= cutoff
ExpiredRows(d, now) ==
  {i \in DOMAIN d.pending_invoices :
     /\ d.pending_invoices[i].expires_at # Null
     /\ d.pending_invoices[i].expires_at <= now}

RECURSIVE RefreshAll(_, _)
RefreshAll(d, S) ==
  IF S = {} THEN d
  ELSE LET a == CHOOSE x \in S : TRUE
       IN RefreshAll(refreshPendingAggregate(d, a), S \ {a})

RECURSIVE WithoutAll(_, _)
WithoutAll(seq, S) ==
  IF seq = <<>> THEN <<>>
  ELSE IF Head(seq) \in S THEN WithoutAll(Tail(seq), S)
       ELSE <<Head(seq)>> \o WithoutAll(Tail(seq), S)

\* pruneExpiredPending without the refresh of the owners' aggregates
pruneExpiredPendingNoRefresh(d, now) ==
  LET gone == ExpiredRows(d, now)
  IN [d EXCEPT !.pending_invoices = [i \in DOMAIN @ \ gone |-> @[i]],
               !.updated = WithoutAll(@, gone)]

pruneExpiredPending(d, now) ==
  LET gone == ExpiredRows(d, now)
      owners == {d.pending_invoices[i].sub_account_id : i \in gone}
  IN RefreshAll(
       [d EXCEPT !.pending_invoices = [i \in DOMAIN @ \ gone |-> @[i]],
                 !.updated = WithoutAll(@, gone)],
       owners)

\* ------------------------------------------------- initial database states
EmptyDb == [sub_accounts |-> <<>>, pending_invoices |-> <<>>, updated |-> <<>>]

\* a database holding the sub-accounts WalletIds, created with distinct secrets
SeededDb == [EmptyDb EXCEPT !.sub_accounts = [a \in WalletIds |-> NewSubAccountRow(a, a)]]

NoCall == [op |-> "none", outcome |-> "none"]
NoDone == [method |-> "none", outcome |-> "none", amountMsats |-> Null, debited |-> 0]

\* ------------------------------------------------ storage: secret envelopes
SECRET_VERSION == 1
IV_LENGTH == 12
AUTH_TAG_LENGTH == 16
\* a secret is 64 hex digits, 32 bytes
SecretLength == 64 \div 2
KeyLength == 256 \div 8

\* sample buffers of n bytes
Bytes(seed, n) == [i \in 1..n |-> (89 * seed + 29 * i) % 256]

RECURSIVE BitXor(_, _)
BitXor(a, b) ==
  IF a = 0 THEN b
  ELSE IF b = 0 THEN a
  ELSE ((a + b) % 2) + 2 * BitXor(a \div 2, b \div 2)

\* node:crypto aes-256-gcm, idealised: a counter-mode key stream derived from key
\* and iv, and a tag that every byte of key, iv and ciphertext takes part in
RECURSIVE Mix(_, _)
Mix(bytes, n) ==
  IF n = 0 THEN 0 ELSE (Mix(bytes, n - 1) + (2 * n - 1) * bytes[n]) % 256

gcmUpdate(key, iv, data) ==
  LET seed == (Mix(key, Len(key)) + 5 * Mix(iv, Len(iv))) % 256
  IN  [i \in 1..Len(data) |-> BitXor(data[i], (seed + 7 * i) % 256)]

gcmAuthTag(key, iv, ciphertext) ==
  LET hash == (Mix(key, Len(key)) + 3 * Mix(iv, Len(iv))
               + Mix(ciphertext, Len(ciphertext)) + Len(ciphertext)) % 256
  IN  [j \in 1..AUTH_TAG_LENGTH |-> ((2 * j - 1) * hash + j) % 256]

Returned(value) == [error |-> "none", value |-> value]
Thrown(message) == [error |-> message, value |-> <<>>]
AuthFailure == "Unsupported state or unable to authenticate data"

encryptBuffer(key, iv, buffer) ==
  LET ciphertext == gcmUpdate(key, iv, buffer)
      authTag    == gcmAuthTag(key, iv, ciphertext)
      header     == <<SECRET_VERSION, IV_LENGTH>>
  IN  header \o iv \o authTag \o ciphertext

\* decryptBuffer without the authentication of the tag
decryptBufferUnchecked(key, buffer) ==
  IF Len(buffer) < 2 + IV_LENGTH + AUTH_TAG_LENGTH
  THEN Thrown("Encrypted payload too short")
  ELSE Returned(gcmUpdate(key, SubSeq(buffer, 3, 2 + IV_LENGTH),
                          SubSeq(buffer, 3 + IV_LENGTH + AUTH_TAG_LENGTH, Len(buffer))))

decryptBuffer(key, buffer) ==
  IF Len(buffer) < 2 + IV_LENGTH + AUTH_TAG_LENGTH
  THEN Thrown("Encrypted payload too short")
  ELSE IF buffer[1] # SECRET_VERSION
  THEN Thrown("Unsupported secret version")
  ELSE IF buffer[2] # IV_LENGTH
  THEN Thrown("Unexpected IV length in encrypted payload")
  ELSE LET ivLength        == buffer[2]
           ivStart         == 2
           ivEnd           == ivStart + ivLength
           authTagStart    == ivEnd
           authTagEnd      == authTagStart + AUTH_TAG_LENGTH
           ciphertextStart == authTagEnd
           iv              == SubSeq(buffer, ivStart + 1, ivEnd)
           authTag         == SubSeq(buffer, authTagStart + 1, authTagEnd)
           ciphertext      == SubSeq(buffer, ciphertextStart + 1, Len(buffer))
       \* decipher.setAuthTag(authTag); decipher.update(ciphertext); decipher.final()
       IN  IF gcmAuthTag(key, iv, ciphertext) = authTag
           THEN Returned(gcmUpdate(key, iv, ciphertext))
           ELSE Thrown(AuthFailure)

Parts == {"none", "header", "iv", "tag", "ciphertext", "truncated"}
NotOpened == [error |-> "not called", value |-> <<>>]

VaultIdle ==
  /\ masterKey = Bytes(0, KeyLength)
  /\ plaintext = <<>>
  /\ payload = <<>>
  /\ tampered = "none"
  /\ opened = [part \in Parts |-> NotOpened]

\* the x-only keys a service or client secret can have
ServiceKeys == {getPublicKey(x) : x \in Secrets}

NoEvents ==
  /\ arrived = <<>>
  /\ queued = [k \in ServiceKeys |-> <<>>]
  /\ routing = [k \in ServiceKeys |-> {}]
  /\ handed = [k \in ServiceKeys |-> <<>>]
  /\ begun = [k \in ServiceKeys |-> 0]

NoNotify == [to |-> Null, id |-> Null, state |-> "none", credited |-> 0]
NoSettling == [pc |-> "none", id |-> Null, amountMsats |-> 0, balanceBefore |-> 0]

\* a constructed manager that was not started
RouterIdle ==
  /\ NoEvents
  /\ serviceKeySet = {}
  /\ filter = {}
  /\ active = FALSE
  /\ contextsById = <<>>
  /\ contextsByServiceKey = <<>>
  /\ startPc = "idle"
  /\ loading = {}
  /\ clock = 0
  /\ lastNotify = NoNotify
  /\ settling = NoSettling
  /\ store = [subAccounts |-> <<>>]

\* f with key k set to v
Put(f, k, v) == [x \in DOMAIN f \cup {k} |-> IF x = k THEN v ELSE f[x]]

\* getSubAccountByServicePubkey: the row id, or Null
SubAccountOf(d, key) ==
  IF \E a \in DOMAIN d.sub_accounts : d.sub_accounts[a].service_pubkey = key
  THEN CHOOSE a \in DOMAIN d.sub_accounts : d.sub_accounts[a].service_pubkey = key
  ELSE Null

\* the ServiceContext ensureContext builds for a service key
NewContext(d, servicePubkey) ==
  [id |-> SubAccountOf(d, servicePubkey), servicePubkey |-> servicePubkey]

\* whether ensureContext builds a context: none is registered and the record exists
BuildsContext(byKey, d, servicePubkey) ==
  servicePubkey \notin DOMAIN byKey /\ SubAccountOf(d, servicePubkey) # Null

\* contextsById after ensureContext(servicePubkey)
ensureContextById(byId, byKey, d, servicePubkey) ==
  IF BuildsContext(byKey, d, servicePubkey)
  THEN Put(byId, SubAccountOf(d, servicePubkey), NewContext(d, servicePubkey))
  ELSE byId

\* an ensureContext that registers the context under its id only
ensureContextByIdOnly(byId, byKey, d, servicePubkey) == byKey

\* contextsByServiceKey after ensureContext(servicePubkey)
ensureContextByServiceKey(byId, byKey, d, servicePubkey) ==
  IF BuildsContext(byKey, d, servicePubkey)
  THEN Put(byKey, servicePubkey, NewContext(d, servicePubkey))
  ELSE byKey

RECURSIVE ContextsOf(_, _)
\* the map ensureContext leaves after it ran for every key in keys
ContextsOf(d, keys) ==
  IF keys = {} THEN <<>>
  ELSE LET k == CHOOSE x \in keys : TRUE
       IN Put(ContextsOf(d, keys \ {k}), k, NewContext(d, k))

\* getSubAccounts().map(item => item.servicePubkey)
ActiveServiceKeys(d) == {d.sub_accounts[a].service_pubkey : a \in DOMAIN d.sub_accounts}

\* after start(): rebuildServiceKeySet, and requests$ subscribed with these keys
RouterStarted(d) ==
  /\ NoEvents
  /\ serviceKeySet = ActiveServiceKeys(d)
  /\ filter = ActiveServiceKeys(d)
  /\ active = TRUE
  /\ contextsByServiceKey = ContextsOf(d, ActiveServiceKeys(d))
  /\ contextsById = [a \in DOMAIN d.sub_accounts |->
                       NewContext(d, d.sub_accounts[a].service_pubkey)]
  /\ startPc = "done"
  /\ loading = {}
  /\ clock = 0
  /\ lastNotify = NoNotify
  /\ settling = NoSettling
  /\ store = [subAccounts |-> <<>>]

ManagerIdle ==
  /\ reqs = EmptyBag
  /\ nReq = 0
  /\ lastDone = NoDone
  /\ nextHash = 1
  /\ RouterIdle
  /\ VaultIdle

\* ---------------------------------------------- direct calls of the ledger
CallCreateSubAccount(id, serviceSecret, clientSecret) ==
  /\ db' = createSubAccount(db, id, serviceSecret, clientSecret)
  /\ lastCall' = [op |-> "createSubAccount",
                  outcome |-> IF db' = db THEN "error" ELSE "ok"]
  /\ UNCHANGED managerVars

\* adjustBalance throws when the UPDATE matched no row
CallAdjustBalance(id, deltaMsats) ==
  /\ db' = adjustBalance(db, id, deltaMsats)
  /\ \A a \in DOMAIN db'.sub_accounts : db'.sub_accounts[a].balance_msats \in {-1, 0, 1}
  /\ lastCall' = [op |-> "adjustBalance",
                  outcome |-> IF id \in DOMAIN db.sub_accounts THEN "ok" ELSE "error"]
  /\ UNCHANGED managerVars

CallRegisterPendingInvoice(id, acct, amount, expiresAt) ==
  /\ db' = registerPendingInvoice(db,
             [id |-> id, subAccountId |-> acct, invoice |-> id, paymentHash |-> id,
              descriptionHash |-> Null, amountMsats |-> amount, expiresAt |-> expiresAt])
  /\ UNCHANGED <<lastCall, managerVars>>

CallUpdatePendingInvoiceState(id, state) ==
  /\ db' = updatePendingInvoiceState(db, id, state, IF state = "settled" THEN 1 ELSE Null)
  /\ UNCHANGED <<lastCall, managerVars>>

CallPruneExpiredPending(now) ==
  /\ db' = pruneExpiredPending(db, now)
  /\ UNCHANGED <<lastCall, managerVars>>

InitRegistry ==
  /\ db = EmptyDb
  /\ lastCall = NoCall
  /\ ManagerIdle

NextRegistry ==
  \/ \E id \in AccountIds, s \in Secrets, c \in Secrets : CallCreateSubAccount(id, s, c)
  \/ \E id \in AccountIds, delta \in {-1, 1} : CallAdjustBalance(id, delta)

SpecRegistry == InitRegistry /\ [][NextRegistry]_vars

\* a manager constructed, not started, over a database holding the sub-accounts WalletIds
InitLedger ==
  /\ db = SeededDb
  /\ lastCall = NoCall
  /\ ManagerIdle

NextLedger ==
  \/ \E id \in InvoiceIds, a \in WalletIds, m \in {1, MaxAmount}, e \in Expiries :
       CallRegisterPendingInvoice(id, a, m, e)
  \/ \E id \in InvoiceIds, s \in {"pending", "settled", "failed", "expired"} :
       CallUpdatePendingInvoiceState(id, s)
  \/ \E now \in {0, 1} : CallPruneExpiredPending(now)

SpecLedger == InitLedger /\ [][NextLedger]_vars

\* ------------------------------------------- ledger: matching a settlement
\* description hashes of invoices: none, or one shared description

\* registerPendingInvoice of a make_invoice result that carries a description hash
CallRegisterDescribed(id, acct, descriptionHash) ==
  /\ db' = registerPendingInvoice(db,
             [id |-> id, subAccountId |-> acct, invoice |-> id, paymentHash |-> id,
              descriptionHash |-> descriptionHash, amountMsats |-> 1,
              expiresAt |-> Null])
  /\ db' # db
  /\ lastCall' = [op |-> "registerPendingInvoice", outcome |-> "ok", found |-> Null]
  /\ UNCHANGED managerVars

\* findMatchingPending(criteria)
CallFindPendingInvoice(c) ==
  /\ lastCall' = [op |-> "findPendingInvoice", outcome |-> "ok",
                  found |-> findPendingInvoice(db, c)]
  /\ UNCHANGED <<db, managerVars>>

NextMatch ==
  \/ \E id \in InvoiceIds, a \in WalletIds, dh \in {Null, 1} :
       CallRegisterDescribed(id, a, dh)
  \/ \E id \in InvoiceIds, st \in {"pending", "settled", "failed", "expired"} :
       CallUpdatePendingInvoiceState(id, st)
  \/ \E c \in [paymentHash : {Null} \cup InvoiceIds,
              invoice : {Null} \cup InvoiceIds,
              descriptionHash : {Null, 1}] : CallFindPendingInvoice(c)

SpecMatch == InitLedger /\ [][NextMatch]_vars

\* ------------------------------------------------------- request handlers
Balance(d, w) == d.sub_accounts[w].balance_msats

\* embedded BOLT11 amount, else the supplied amount, else throws (Null)
resolveInvoiceAmount(embedded, fallback) ==
  IF embedded > 0 THEN embedded
  ELSE IF fallback > 0 THEN fallback
  ELSE Null

\* pay_invoice without the comparison of the balance with the amount
payInvoiceCheckNoBalance(d, w, embedded, fallback) ==
  IF w \notin DOMAIN d.sub_accounts THEN "not_found"
  ELSE IF resolveInvoiceAmount(embedded, fallback) = Null THEN "missing_amount"
  ELSE "ok"

\* pay_invoice up to its upstream call: "ok", or the error it throws
payInvoiceCheck(d, w, embedded, fallback) ==
  IF w \notin DOMAIN d.sub_accounts THEN "not_found"
  ELSE IF resolveInvoiceAmount(embedded, fallback) = Null THEN "missing_amount"
  ELSE IF Balance(d, w) < resolveInvoiceAmount(embedded, fallback)
       THEN "insufficient_balance"
  ELSE "ok"

payInvoiceDebitAlways(d, w, amountMsats, upstreamOk) ==
  touchSubAccount(adjustBalance(d, w, -amountMsats), w)

\* pay_invoice after its upstream call returned or rejected
payInvoiceFinish(d, w, amountMsats, upstreamOk) ==
  IF upstreamOk THEN touchSubAccount(adjustBalance(d, w, -amountMsats), w) ELSE d

\* make_invoice that returns the transaction without registering it
makeInvoiceFinishUnregistered(d, w, tx, paramsAmount) ==
  touchSubAccount(d, w)

\* make_invoice after upstream.makeInvoice returned transaction tx
makeInvoiceFinish(d, w, tx, paramsAmount) ==
  LET p == [id |-> IF tx.payment_hash # Null THEN tx.payment_hash ELSE tx.invoice,
            subAccountId |-> w, invoice |-> tx.invoice, paymentHash |-> tx.payment_hash,
            descriptionHash |-> tx.description_hash,
            amountMsats |-> IF tx.amount # Null THEN tx.amount ELSE paramsAmount,
            expiresAt |-> tx.expires_at]
  IN IF InsertPendingAllowed(d, p)
     THEN touchSubAccount(registerPendingInvoice(d, p), w)
     ELSE d

\* settlePending without the credit
settlePendingStateOnly(d, id, amountMsats) ==
  updatePendingInvoiceState(d, id, "settled", 1)

settlePending(d, id, amountMsats) ==
  adjustBalance(updatePendingInvoiceState(d, id, "settled", 1),
                d.pending_invoices[id].sub_account_id, amountMsats)

\* settle the row matching the identifiers of an upstream record, if any
Reconcile(d, rec) ==
  LET id == findPendingInvoice(d, [paymentHash |-> rec.payment_hash,
                                   invoice |-> rec.invoice,
                                   descriptionHash |-> rec.description_hash])
  IN IF id = Null THEN d
     ELSE settlePending(d, id,
            IF rec.amount # Null THEN rec.amount ELSE d.pending_invoices[id].amount_msats)

\* lookup_invoice that reconciles whatever state the upstream reports
lookupInvoiceFinishAlways(d, check) ==
  Reconcile(d, check)

\* lookup_invoice after upstream.lookupInvoice returned check
lookupInvoiceFinish(d, check) ==
  IF check.state = "settled" THEN Reconcile(d, check) ELSE d

\* the payment_received callback of bootstrapUpstreamNotifications
onPaymentReceived(d, notification) ==
  IF notification.type # "incoming" THEN d ELSE Reconcile(d, notification)

\* ------------------------------------------------------ ledger: the sweep
\* settlePending on a row that is pending, crediting the stored amount
CallSettlePending(id) ==
  /\ id \in DOMAIN db.pending_invoices
  /\ db.pending_invoices[id].state = "pending"
  /\ db' = settlePending(db, id, db.pending_invoices[id].amount_msats)
  /\ UNCHANGED <<lastCall, managerVars>>

\* pruneExpiredPending(now); the call is recorded with the database it was made on
Sweep(now) ==
  /\ db' = pruneExpiredPending(db, now)
  /\ lastCall' = [op |-> "pruneExpiredPending", outcome |-> "ok",
                  before |-> db, now |-> now]
  /\ UNCHANGED managerVars

\* invoices are issued and settled, then the ledger is swept, once or repeatedly
NextSweep ==
  \/ \E id \in InvoiceIds, a \in WalletIds, m \in {1, MaxAmount}, e \in Expiries :
       lastCall = NoCall /\ CallRegisterPendingInvoice(id, a, m, e)
  \/ \E id \in InvoiceIds : lastCall = NoCall /\ CallSettlePending(id)
  \/ \E now \in {0, 1} : Sweep(now)

SpecSweep == InitLedger /\ [][NextSweep]_vars

\* ------------------------------------------------ manager: routing, handlers
\* a handler suspended in its upstream call; arg is what it keeps in its closure:
\* the resolved amount (pay_invoice), params.amount (make_invoice),
\* params.payment_hash (lookup_invoice)
Handler(w, method, arg) == [wallet |-> w, method |-> method, arg |-> arg]

Suspend(h) == reqs (+) SetToBag({h})
Resume(h) == reqs (-) SetToBag({h})

Suspended(h, method) == BagIn(h, reqs) /\ h.method = method

Done(method, outcome, amountMsats, debited) ==
  [method |-> method, outcome |-> outcome, amountMsats |-> amountMsats, debited |-> debited]


\* a get_balance that answers with what is not tied up in pending invoices
getBalanceUnreserved(d, w) ==
  IF w \in DOMAIN d.sub_accounts
  THEN d.sub_accounts[w].balance_msats - d.sub_accounts[w].pending_msats
  ELSE 0

\* get_balance's result: getSubAccountById(subAccountId)?.balanceMsats ?? 0
getBalance(d, w) ==
  IF w \in DOMAIN d.sub_accounts THEN d.sub_accounts[w].balance_msats ELSE 0

\* routeEvent pushes the event to the sub-wallet's Endpoint without waiting for the
\* handler, then touchSubAccount; the handler runs up to its first await.
\* Events reach routeEvent through requestsSubscription only, that is while it is
\* subscribed.
RouteGetBalance(w) ==
  /\ active
  /\ nReq < MaxRequests
  /\ nReq' = nReq + 1
  /\ db' = touchSubAccount(touchSubAccount(db, w), w)
  /\ lastDone' = Done("get_balance", "ok", getBalance(db, w), 0)
  /\ UNCHANGED <<lastCall, reqs, nextHash, routerVars, vaultVars, extraVars>>

RouteGetInfo(w) ==
  /\ active
  /\ nReq < MaxRequests
  /\ nReq' = nReq + 1
  /\ db' = touchSubAccount(touchSubAccount(db, w), w)
  /\ reqs' = Suspend(Handler(w, "get_info", Null))
  /\ UNCHANGED <<lastCall, lastDone, nextHash, routerVars, vaultVars, extraVars>>

\* a pay_invoice that takes the amount off the balance before it asks the upstream
RoutePayInvoiceDebitFirst(w, embedded, fallback) ==
  /\ active
  /\ nReq < MaxRequests
  /\ nReq' = nReq + 1
  /\ LET check == payInvoiceCheck(db, w, embedded, fallback)
         amountMsats == resolveInvoiceAmount(embedded, fallback)
     IN IF check = "ok"
        THEN /\ db' = adjustBalance(touchSubAccount(db, w), w, -amountMsats)
             /\ reqs' = Suspend(Handler(w, "pay_invoice", amountMsats))
             /\ UNCHANGED lastDone
        ELSE /\ db' = touchSubAccount(db, w)
             /\ lastDone' = Done("pay_invoice", check, amountMsats, 0)
             /\ UNCHANGED reqs
  /\ UNCHANGED <<lastCall, nextHash, routerVars, vaultVars, extraVars>>

RoutePayInvoice(w, embedded, fallback) ==
  /\ active
  /\ nReq < MaxRequests
  /\ nReq' = nReq + 1
  /\ db' = touchSubAccount(db, w)
  /\ LET check == payInvoiceCheck(db, w, embedded, fallback)
         amountMsats == resolveInvoiceAmount(embedded, fallback)
     IN IF check = "ok"
        THEN /\ reqs' = Suspend(Handler(w, "pay_invoice", amountMsats))
             /\ UNCHANGED lastDone
        ELSE /\ lastDone' = Done("pay_invoice", check, amountMsats, 0)
             /\ UNCHANGED reqs
  /\ UNCHANGED <<lastCall, nextHash, routerVars, vaultVars, extraVars>>

RouteMakeInvoice(w, amount) ==
  /\ active
  /\ nReq < MaxRequests
  /\ nReq' = nReq + 1
  /\ db' = touchSubAccount(db, w)
  /\ reqs' = Suspend(Handler(w, "make_invoice", amount))
  /\ UNCHANGED <<lastCall, lastDone, nextHash, routerVars, vaultVars, extraVars>>

RouteLookupInvoice(w, hash) ==
  /\ active
  /\ nReq < MaxRequests
  /\ nReq' = nReq + 1
  /\ db' = touchSubAccount(db, w)
  /\ reqs' = Suspend(Handler(w, "lookup_invoice", hash))
  /\ UNCHANGED <<lastCall, lastDone, nextHash, routerVars, vaultVars, extraVars>>

GetInfoReturn(h, upstreamOk) ==
  /\ Suspended(h, "get_info")
  /\ reqs' = Resume(h)
  /\ lastDone' = Done("get_info", IF upstreamOk THEN "ok" ELSE "upstream_failure", Null, 0)
  /\ UNCHANGED <<db, lastCall, nReq, nextHash, routerVars, vaultVars, extraVars>>

PayInvoiceReturn(h, upstreamOk) ==
  /\ Suspended(h, "pay_invoice")
  /\ reqs' = Resume(h)
  /\ db' = payInvoiceFinish(db, h.wallet, h.arg, upstreamOk)
  /\ lastDone' = Done("pay_invoice", IF upstreamOk THEN "ok" ELSE "upstream_failure",
                      h.arg, Balance(db, h.wallet) - Balance(db', h.wallet))
  /\ UNCHANGED <<lastCall, nReq, nextHash, routerVars, vaultVars, extraVars>>

\* the upstream wallet issues a fresh payment hash with every invoice
MakeInvoiceReturn(h, amount, expiresAt) ==
  /\ Suspended(h, "make_invoice")
  /\ nextHash <= MaxInvoices
  /\ amount \in {Null, h.arg}
  /\ reqs' = Resume(h)
  /\ db' = makeInvoiceFinish(db, h.wallet,
             [payment_hash |-> nextHash, invoice |-> nextHash, description_hash |-> Null,
              amount |-> amount, expires_at |-> expiresAt], h.arg)
  /\ lastDone' = Done("make_invoice", "ok", h.arg, 0)
  /\ nextHash' = nextHash + 1
  /\ UNCHANGED <<lastCall, nReq, routerVars, vaultVars, extraVars>>

MakeInvoiceReject(h) ==
  /\ Suspended(h, "make_invoice")
  /\ reqs' = Resume(h)
  /\ lastDone' = Done("make_invoice", "upstream_failure", h.arg, 0)
  /\ UNCHANGED <<db, lastCall, nReq, nextHash, routerVars, vaultVars, extraVars>>

LookupInvoiceReturn(h, state, amount) ==
  /\ Suspended(h, "lookup_invoice")
  /\ reqs' = Resume(h)
  /\ db' = lookupInvoiceFinish(db, [state |-> state, payment_hash |-> h.arg,
                                    invoice |-> Null, description_hash |-> Null,
                                    amount |-> amount])
  /\ \A a \in DOMAIN db'.sub_accounts : Balance(db', a) <= MaxBalance
  /\ lastDone' = Done("lookup_invoice", state, amount, 0)
  /\ UNCHANGED <<lastCall, nReq, nextHash, routerVars, vaultVars, extraVars>>

LookupInvoiceReject(h) ==
  /\ Suspended(h, "lookup_invoice")
  /\ reqs' = Resume(h)
  /\ lastDone' = Done("lookup_invoice", "upstream_failure", Null, 0)
  /\ UNCHANGED <<db, lastCall, nReq, nextHash, routerVars, vaultVars, extraVars>>

\* the upstream wallet emits a payment_received notification
PaymentReceived(type, hash, amount) ==
  /\ db' = onPaymentReceived(db, [type |-> type, payment_hash |-> hash, invoice |-> Null,
                                  description_hash |-> Null, amount |-> amount])
  /\ \A a \in DOMAIN db'.sub_accounts : Balance(db', a) <= MaxBalance
  /\ UNCHANGED <<lastCall, managerVars>>

\* Date.now(): milliseconds, where the clock counts seconds
DateNow(seconds) == 1000 * seconds

\* The process dies while handler h, and every other one, waits for the upstream;
\* the handlers are gone with it, and start() runs again on the database as the
\* last completed statement left it, with its one prune at whatever time it is.
Restart(h, seconds) ==
  /\ BagIn(h, reqs)
  /\ reqs' = EmptyBag
  /\ db' = pruneExpiredPending(db, DateNow(seconds))
  /\ lastDone' = Done(h.method, "abandoned", h.arg,
                      Balance(db, h.wallet) - Balance(db', h.wallet))
  /\ UNCHANGED <<lastCall, nReq, nextHash, routerVars, vaultVars, extraVars>>

\* The database a previous run left behind: sub-wallet 1 issued an invoice of
\* MaxAmount msat (payment hash 1), which was paid and settled by a notification.
FundedDb ==
  onPaymentReceived(
    makeInvoiceFinish(touchSubAccount(SeededDb, 1), 1,
                      [payment_hash |-> 1, invoice |-> 1, description_hash |-> Null,
                       amount |-> MaxAmount, expires_at |-> Null], MaxAmount),
    [type |-> "incoming", payment_hash |-> 1, invoice |-> Null,
     description_hash |-> Null, amount |-> Null])

Init ==
  /\ db = FundedDb
  /\ lastCall = NoCall
  /\ reqs = EmptyBag
  /\ nReq = 0
  /\ lastDone = NoDone
  /\ nextHash = 2
  /\ RouterStarted(FundedDb)
  /\ VaultIdle

Next ==
  \/ \E w \in WalletIds : RouteGetBalance(w)
  \/ \E w \in WalletIds : RouteGetInfo(w)
  \/ \E w \in WalletIds, e \in {Null} \cup Amounts, f \in {Null} \cup Amounts :
       RoutePayInvoice(w, e, f)
  \/ \E w \in WalletIds, m \in Amounts : RouteMakeInvoice(w, m)
  \/ \E w \in WalletIds, h \in InvoiceIds : RouteLookupInvoice(w, h)
  \/ \E h \in BagToSet(reqs), ok \in BOOLEAN : GetInfoReturn(h, ok)
  \/ \E h \in BagToSet(reqs), ok \in BOOLEAN : PayInvoiceReturn(h, ok)
  \/ \E h \in BagToSet(reqs), m \in {Null} \cup Amounts, e \in Expiries \ {Null} :
       MakeInvoiceReturn(h, m, e)
  \/ \E h \in BagToSet(reqs) : MakeInvoiceReject(h)
  \/ \E h \in BagToSet(reqs), st \in {"settled", "pending"}, m \in {Null} \cup Amounts :
       LookupInvoiceReturn(h, st, m)
  \/ \E h \in BagToSet(reqs) : LookupInvoiceReject(h)
  \/ \E t \in {"incoming", "outgoing"}, h \in InvoiceIds, m \in {Null} \cup Amounts :
       PaymentReceived(t, h, m)
  \/ \E h \in BagToSet(reqs), t \in 0..MaxClock : Restart(h, t)

Spec == Init /\ [][Next]_vars

\* ------------------------------------------------------- manager: stop()
\* stop(): requestsSubscription.unsubscribe(), service.stop() for every context, both
\* maps cleared, closeStorage(). Nothing in it reaches the promises of handlers that
\* wait for the upstream, nor the payment_received callback registered with the
\* upstream; closeStorage() closes the handle and resets `initialized`, and the next
\* storage call opens the same file again (ensureInitialized).
Stop ==
  /\ active
  /\ active' = FALSE
  /\ contextsById' = <<>>
  /\ contextsByServiceKey' = <<>>
  /\ UNCHANGED <<db, lastCall, reqs, nReq, lastDone, nextHash, arrived, queued, routing,
                 handed, begun, serviceKeySet, filter, vaultVars, startPc, loading,
                 serviceVars>>

\* payments and invoices of a manager that is stopped at some point
NextStop ==
  \/ \E w \in WalletIds, e \in Amounts : RoutePayInvoice(w, e, Null)
  \/ \E h \in BagToSet(reqs), ok \in BOOLEAN : PayInvoiceReturn(h, ok)
  \/ \E w \in WalletIds, m \in Amounts : RouteMakeInvoice(w, m)
  \/ \E h \in BagToSet(reqs), m \in {Null} \cup Amounts : MakeInvoiceReturn(h, m, Null)
  \/ \E h \in InvoiceIds : PaymentReceived("incoming", h, Null)
  \/ Stop

SpecStop == Init /\ [][NextStop]_vars

\* ------------------------------------------- manager: the running service
\* a second passes
Tick ==
  /\ clock < MaxClock
  /\ clock' = clock + 1
  /\ UNCHANGED <<db, lastCall, reqs, nReq, lastDone, nextHash, routerVars, vaultVars,
               registryVars, lastNotify, settling, store>>

\* the manager after start() returned at second 0: its one call of
\* pruneExpiredPending(Date.now()) is over
InitService ==
  /\ db = pruneExpiredPending(FundedDb, DateNow(0))
  /\ lastCall = NoCall
  /\ reqs = EmptyBag
  /\ nReq = 0
  /\ lastDone = NoDone
  /\ nextHash = 2
  /\ RouterStarted(FundedDb)
  /\ VaultIdle

\* invoices are issued and paid while time passes; nothing in the running manager
\* calls pruneExpiredPending again
NextService ==
  \/ Tick
  \/ \E w \in WalletIds, m \in Amounts : RouteMakeInvoice(w, m)
  \/ \E h \in BagToSet(reqs), m \in {Null} \cup Amounts, e \in Expiries :
       MakeInvoiceReturn(h, m, e)
  \/ \E h \in InvoiceIds, m \in {Null} \cup Amounts : PaymentReceived("incoming", h, m)

\* time passes whatever the clients do
SpecService == InitService /\ [][NextService]_vars /\ WF_vars(Tick)

\* ------------------------------------------------------ manager: the router
\* the "p" tag values an event carries, in tag order
TagLists ==
  {<<>>} \cup {<<k>> : k \in ServiceKeys}
         \cup {<<k, l>> : k \in ServiceKeys, l \in ServiceKeys}

\* a resolver that takes the first "p" tag whatever it names
resolveServicePubkeyFirstTag(tags, keys) ==
  IF tags = <<>> THEN Null ELSE Head(tags)

\* the first "p" tag that serviceKeySet has, else null
resolveServicePubkey(tags, keys) ==
  IF \E j \in 1..Len(tags) : tags[j] \in keys
  THEN tags[CHOOSE j \in 1..Len(tags) :
              tags[j] \in keys /\ \A l \in 1..(j - 1) : tags[l] \notin keys]
  ELSE Null

\* context.service.client of the group's sub-wallet
ClientOf(d, key) ==
  IF SubAccountOf(d, key) = Null THEN Null
  ELSE d.sub_accounts[SubAccountOf(d, key)].client_pubkey

\* requests$ emits an event with these "p" tags signed by pubkey (relays are not
\* trusted to apply the subscription filter); map resolves its service key, filter
\* drops it when there is none, groupBy files it under the key
Observe(tags, pubkey) ==
  /\ active
  /\ Len(arrived) < MaxEvents
  /\ LET servicePubkey == resolveServicePubkey(tags, serviceKeySet)
     IN /\ arrived' = Append(arrived, [to |-> servicePubkey, pubkey |-> pubkey])
        /\ queued' = IF servicePubkey = Null THEN queued
                     ELSE [queued EXCEPT ![servicePubkey] = Append(@, Len(arrived) + 1)]
  /\ UNCHANGED <<db, lastCall, reqs, nReq, lastDone, nextHash, routing, handed, begun,
                 serviceKeySet, filter, active, vaultVars, extraVars>>

MergeMapInner(w) == TRUE

\* one concatMap over the events of all the groups
ConcatMapAll(w) == \A k \in ServiceKeys : routing[k] = {}

\* concatMap subscribes to the next inner observable once the previous one completed
ConcatMapInner(w) == routing[w] = {}

\* routeEvent is called and suspends in `await this.ensureContext(servicePubkey)`
RouteBegin(w) ==
  /\ active
  /\ queued[w] # <<>>
  /\ ConcatMapInner(w)
  /\ routing' = [routing EXCEPT ![w] = @ \cup {Head(queued[w])}]
  /\ queued' = [queued EXCEPT ![w] = Tail(@)]
  /\ UNCHANGED <<db, lastCall, reqs, nReq, lastDone, nextHash, arrived, handed, begun,
                 serviceKeySet, filter, active, vaultVars, extraVars>>

\* routeEvent resumes: nothing when ensureContext found no record; otherwise
\* context.events$.next(event) (after a warning when the sender is not the client),
\* touchSubAccount, and it returns
RouteEnd(w, i) ==
  /\ i \in routing[w]
  /\ routing' = [routing EXCEPT ![w] = @ \ {i}]
  /\ IF SubAccountOf(db, w) = Null
     THEN UNCHANGED <<handed, db>>
     ELSE /\ handed' = [handed EXCEPT ![w] = Append(@, i)]
          /\ db' = touchSubAccount(db, SubAccountOf(db, w))
  /\ contextsById' = ensureContextById(contextsById, contextsByServiceKey, db, w)
  /\ contextsByServiceKey' =
       ensureContextByServiceKey(contextsById, contextsByServiceKey, db, w)
  /\ UNCHANGED <<lastCall, reqs, nReq, lastDone, nextHash, arrived, queued, begun,
                 serviceKeySet, filter, active, vaultVars, startPc, loading, serviceVars>>

\* without catchError the rejection reaches the outer subscriber
Rethrow(w) == FALSE

\* catchError(() => of(null)): the inner observable completes, the outer one goes on
CatchError(w) == TRUE

\* routeEvent rejects (ensureContext throws while it starts the WalletService);
\* the event is handed to nobody
RouteFail(w, i) ==
  /\ i \in routing[w]
  /\ routing' = [routing EXCEPT ![w] = @ \ {i}]
  /\ active' = (active /\ CatchError(w))
  /\ UNCHANGED <<db, lastCall, reqs, nReq, lastDone, nextHash, arrived, queued, handed, begun,
                 serviceKeySet, filter, vaultVars, extraVars>>

\* the next event pushed to the Endpoint, and whether its sender is the client
NextPushed(w) == arrived[handed[w][begun[w] + 1]]
FromClient(w) == NextPushed(w).pubkey = ClientOf(db, w)

\* the Endpoint starts the get_info handler of the next event pushed to it
GetInfoBegin(w) ==
  /\ begun[w] < Len(handed[w])
  /\ FromClient(w)
  /\ begun' = [begun EXCEPT ![w] = @ + 1]
  /\ db' = touchSubAccount(db, SubAccountOf(db, w))
  /\ reqs' = Suspend(Handler(SubAccountOf(db, w), "get_info", Null))
  /\ UNCHANGED <<lastCall, nReq, lastDone, nextHash, arrived, queued, routing, handed,
                 serviceKeySet, filter, active, vaultVars, extraVars>>

\* the Endpoint ignores an event that its client did not send
EndpointIgnore(w) ==
  /\ begun[w] < Len(handed[w])
  /\ ~FromClient(w)
  /\ begun' = [begun EXCEPT ![w] = @ + 1]
  /\ UNCHANGED <<db, lastCall, reqs, nReq, lastDone, nextHash, arrived, queued, routing,
                 handed, serviceKeySet, filter, active, vaultVars, extraVars>>

InitRouter ==
  /\ db = SeededDb
  /\ lastCall = NoCall
  /\ reqs = EmptyBag
  /\ nReq = 0
  /\ lastDone = NoDone
  /\ nextHash = 1
  /\ RouterStarted(SeededDb)
  /\ VaultIdle

\* requests of the sub-wallets' own clients
NextRouter ==
  \/ \E w \in WalletIds : Observe(<<SeededDb.sub_accounts[w].service_pubkey>>,
                                  SeededDb.sub_accounts[w].client_pubkey)
  \/ \E w \in ServiceKeys : RouteBegin(w)
  \/ \E w \in ServiceKeys, i \in 1..MaxEvents : RouteEnd(w, i)
  \/ \E w \in ServiceKeys, i \in 1..MaxEvents : RouteFail(w, i)
  \/ \E w \in ServiceKeys : GetInfoBegin(w)
  \/ \E h \in BagToSet(reqs), ok \in BOOLEAN : GetInfoReturn(h, ok)

SpecRouter == InitRouter /\ [][NextRouter]_vars

\* where an observed event is
Waiting(i) == \E k \in ServiceKeys : \E j \in 1..Len(queued[k]) : queued[k][j] = i
InRoute(i) == \E k \in ServiceKeys : i \in routing[k]
Pushed(i) == \E k \in ServiceKeys : \E j \in 1..Len(handed[k]) : handed[k][j] = i
Failed(i) ==
  /\ i \in 1..Len(arrived) /\ arrived[i].to # Null
  /\ ~Waiting(i) /\ ~InRoute(i) /\ ~Pushed(i)

\* a routeEvent call that was started runs on whether or not anyone is subscribed, and
\* concatMap starts the next call of a group as soon as the previous one is over
SpecRouterLive ==
  /\ SpecRouter
  /\ \A w \in ServiceKeys : WF_vars(RouteBegin(w))
  /\ \A w \in ServiceKeys :
       WF_vars(\E i \in 1..MaxEvents : RouteEnd(w, i) \/ RouteFail(w, i))

\* ----------------------------------------- manager: sub-wallets added live
\* an addServiceKey that leaves the set as it is
addServiceKeyDropped(keys, servicePubkey) == keys

\* serviceKeySet.add(servicePubkey); the result is what serviceKeys$ emits
addServiceKey(keys, servicePubkey) == keys \cup {servicePubkey}

\* WalletServiceManager.createSubAccount: the storage insert (which throws on a taken
\* id or key), addServiceKey, and switchMap replacing the relay subscription by one
\* with the emitted keys; what is already past switchMap stays where it is
ManagerCreateSubAccount(id, serviceSecret, clientSecret) ==
  LET created == createSubAccount(db, id, serviceSecret, clientSecret)
      key     == getPublicKey(serviceSecret)
      keys    == addServiceKey(serviceKeySet, key)
  IN /\ IF created = db
        THEN /\ lastCall' = [op |-> "createSubAccount", outcome |-> "error",
                             error |-> IF ValidSecret(serviceSecret)
                                          /\ ValidSecret(clientSecret)
                                       THEN "Failed to create sub account"
                                       ELSE "Secrets must be 32-byte hex strings"]
             /\ UNCHANGED <<db, serviceKeySet, filter, contextsById, contextsByServiceKey>>
        ELSE /\ db' = created
             /\ serviceKeySet' = keys
             /\ filter' = IF active THEN keys ELSE filter
             /\ contextsById' =
                  ensureContextById(contextsById, contextsByServiceKey, created, key)
             /\ contextsByServiceKey' =
                  ensureContextByServiceKey(contextsById, contextsByServiceKey, created, key)
             /\ lastCall' = [op |-> "createSubAccount", outcome |-> "ok",
                             key |-> key,
                             inFlight |-> {i \in 1..Len(arrived) :
                                             Waiting(i) \/ InRoute(i)}]
     /\ UNCHANGED <<reqs, nReq, lastDone, nextHash, arrived, queued, routing, handed, begun,
                    active, vaultVars, startPc, loading, serviceVars>>

\* events with any tags, signed by the client of the sub-wallet they resolve to, while
\* sub-wallets are added
NextIntake ==
  \/ \E tags \in TagLists :
       Observe(tags, ClientOf(db, resolveServicePubkey(tags, serviceKeySet)))
  \/ \E id \in AccountIds \ WalletIds, x \in Secrets : ManagerCreateSubAccount(id, x, x)
  \/ \E w \in ServiceKeys : RouteBegin(w)
  \/ \E w \in ServiceKeys, i \in 1..MaxEvents : RouteEnd(w, i)
  \/ \E w \in ServiceKeys, i \in 1..MaxEvents : RouteFail(w, i)

SpecIntake == InitRouter /\ [][NextIntake]_vars

\* requests addressed to the sub-wallets by any sender
NextAuth ==
  \/ \E w \in WalletIds, pubkey \in ServiceKeys :
       Observe(<<SeededDb.sub_accounts[w].service_pubkey>>, pubkey)
  \/ \E w \in ServiceKeys : RouteBegin(w)
  \/ \E w \in ServiceKeys, i \in 1..MaxEvents : RouteEnd(w, i)
  \/ \E w \in ServiceKeys : GetInfoBegin(w)
  \/ \E w \in ServiceKeys : EndpointIgnore(w)
  \/ \E h \in BagToSet(reqs), ok \in BOOLEAN : GetInfoReturn(h, ok)

SpecAuth == InitRouter /\ [][NextAuth]_vars

\* ------------------------------------- manager: ensureContext, call by call
\* ensureContext runs to `await service.start()` without a break: it returns at once
\* when contextsByServiceKey has the key, otherwise it builds a WalletService, starts
\* it and suspends; the two maps are set when it resumes. A call suspended there is
\* kept like a suspended handler: the sub-account, "ensureContext", and the event
\* routeEvent called it for (Null: called by createSubAccount).

\* createSubAccount up to its await: the storage insert, addServiceKey (serviceKeys$
\* emits, switchMap resubscribes with the new key) and ensureContext building
CreateSubAccountBegin(id, secret) ==
  LET created == createSubAccount(db, id, secret, secret)
  IN /\ created # db
     /\ db' = created
     /\ serviceKeySet' = addServiceKey(serviceKeySet, getPublicKey(secret))
     /\ filter' = IF active THEN serviceKeySet' ELSE filter
     /\ reqs' = Suspend(Handler(id, "ensureContext", Null))
     /\ UNCHANGED <<lastCall, nReq, lastDone, nextHash, arrived, queued, routing, handed,
                    begun, active, vaultVars, extraVars>>

\* routeEvent is called for the next event of group w; its ensureContext finds the
\* context, or builds one and suspends
RouteEventBegin(w) ==
  /\ active
  /\ queued[w] # <<>>
  /\ ConcatMapInner(w)
  /\ routing' = [routing EXCEPT ![w] = @ \cup {Head(queued[w])}]
  /\ queued' = [queued EXCEPT ![w] = Tail(@)]
  /\ reqs' = IF BuildsContext(contextsByServiceKey, db, w)
             THEN Suspend(Handler(SubAccountOf(db, w), "ensureContext", Head(queued[w])))
             ELSE reqs
  /\ UNCHANGED <<db, lastCall, nReq, lastDone, nextHash, arrived, handed, begun,
                 serviceKeySet, filter, active, vaultVars, extraVars>>

\* service.start() resolved: the call sets both maps to its own context and returns;
\* routeEvent goes on to push its event and touch the sub-account
EnsureContextResume(h) ==
  LET key == db.sub_accounts[h.wallet].service_pubkey
  IN /\ Suspended(h, "ensureContext")
     /\ reqs' = Resume(h)
     /\ contextsById' = Put(contextsById, h.wallet, NewContext(db, key))
     /\ contextsByServiceKey' = Put(contextsByServiceKey, key, NewContext(db, key))
     /\ IF h.arg = Null
        THEN UNCHANGED <<db, routing, handed>>
        ELSE /\ routing' = [routing EXCEPT ![key] = @ \ {h.arg}]
             /\ handed' = [handed EXCEPT ![key] = Append(@, h.arg)]
             /\ db' = touchSubAccount(db, h.wallet)
     /\ UNCHANGED <<lastCall, nReq, lastDone, nextHash, arrived, queued, begun,
                    serviceKeySet, filter, active, vaultVars, startPc, loading,
                    serviceVars>>

\* a sub-wallet is created on a started manager while its clients' requests arrive
NextContexts ==
  \/ \E id \in AccountIds \ WalletIds, x \in Secrets : CreateSubAccountBegin(id, x)
  \/ \E w \in DOMAIN db.sub_accounts :
       Observe(<<db.sub_accounts[w].service_pubkey>>, db.sub_accounts[w].client_pubkey)
  \/ \E w \in ServiceKeys : RouteEventBegin(w)
  \/ \E h \in BagToSet(reqs) : EnsureContextResume(h)
  \/ \E w \in ServiceKeys, i \in 1..MaxEvents :
       (\A h \in BagToSet(reqs) : h.arg # i) /\ RouteEnd(w, i)

SpecContexts == InitRouter /\ [][NextContexts]_vars

\* --------------------------------------------------------- manager: start()
\* start() up to its first await: getSubAccounts() and rebuildServiceKeySet
StartBegin ==
  /\ startPc = "idle"
  /\ startPc' = "loading"
  /\ loading' = DOMAIN db.sub_accounts
  /\ serviceKeySet' = ActiveServiceKeys(db)
  /\ UNCHANGED <<db, lastCall, reqs, nReq, lastDone, nextHash, arrived, queued, routing,
                 handed, begun, filter, active, vaultVars, contextsById,
                 contextsByServiceKey, serviceVars>>

\* the record the loop of start() is at
NextRecord == CHOOSE a \in loading : \A b \in loading : a <= b

\* `await this.ensureContext(record.servicePubkey)` returned
StartEnsureContext ==
  /\ startPc = "loading"
  /\ loading # {}
  /\ LET key == db.sub_accounts[NextRecord].service_pubkey
     IN /\ contextsById' = ensureContextById(contextsById, contextsByServiceKey, db, key)
        /\ contextsByServiceKey' =
             ensureContextByServiceKey(contextsById, contextsByServiceKey, db, key)
  /\ loading' = loading \ {NextRecord}
  /\ UNCHANGED <<db, lastCall, reqs, nReq, lastDone, nextHash, routerVars, vaultVars,
                 startPc, serviceVars>>

\* service.start() rejected inside ensureContext: start() rejects
StartRejects ==
  /\ startPc = "loading"
  /\ loading # {}
  /\ BuildsContext(contextsByServiceKey, db, db.sub_accounts[NextRecord].service_pubkey)
  /\ startPc' = "failed"
  /\ loading' = {}
  /\ UNCHANGED <<db, lastCall, reqs, nReq, lastDone, nextHash, routerVars, vaultVars,
                 contextsById, contextsByServiceKey, serviceVars>>

\* the rest of start(): requests$ is built and subscribed (switchMap subscribes to the
\* relays with the keys serviceKeys$ holds), notifications are set up,
\* pruneExpiredPending(Date.now())
StartSubscribe ==
  /\ startPc = "loading"
  /\ loading = {}
  /\ startPc' = "done"
  /\ filter' = serviceKeySet
  /\ active' = TRUE
  /\ db' = pruneExpiredPending(db, DateNow(clock))
  /\ UNCHANGED <<lastCall, reqs, nReq, lastDone, nextHash, arrived, queued, routing,
                 handed, begun, serviceKeySet, vaultVars, contextsById,
                 contextsByServiceKey, loading, serviceVars>>

\* sub-wallets are created before start() is called or after it returned; once
\* started, the manager routes requests
NextStart ==
  \/ \E id \in AccountIds \ WalletIds, x \in Secrets \cup {InvalidSecret} :
       \E y \in {x, 1, InvalidSecret} :
         startPc \in {"idle", "done"} /\ ManagerCreateSubAccount(id, x, y)
  \/ StartBegin
  \/ StartEnsureContext
  \/ StartRejects
  \/ StartSubscribe
  \/ \E w \in DOMAIN db.sub_accounts :
       Observe(<<db.sub_accounts[w].service_pubkey>>, db.sub_accounts[w].client_pubkey)
  \/ \E w \in ServiceKeys : RouteBegin(w)
  \/ \E w \in ServiceKeys, i \in 1..MaxEvents : RouteEnd(w, i)

SpecStart == InitLedger /\ [][NextStart]_vars

\* start() on the database an earlier run left: invoices were registered with an
\* expiry (unix seconds) before the manager is started, at whatever second that is
NextBoot ==
  \/ Tick
  \/ \E id \in InvoiceIds, a \in WalletIds, e \in {1, MaxClock} :
       startPc = "idle" /\ CallRegisterPendingInvoice(id, a, 1, e)
  \/ StartBegin
  \/ StartEnsureContext
  \/ StartRejects
  \/ StartSubscribe

SpecBoot == InitLedger /\ [][NextBoot]_vars

\* ------------------------------------------- HTTP API: the nwc.json ledger
\* normalizeMsat on integers
normalizeMsat(value) == IF value < 0 THEN 0 ELSE value

\* registerPendingInvoice of nwc-store; computeInvoiceId is the payment hash, else
\* the digest of the invoice string
storeRegisterPendingInvoice(entry, subAccountId, params) ==
  LET computeInvoiceId(invoice, paymentHash) ==
        IF paymentHash # Null THEN paymentHash ELSE MaxInvoices + invoice
      id == computeInvoiceId(params.invoice, params.paymentHash)
      invoice == [invoice |-> params.invoice, paymentHash |-> params.paymentHash,
                  amountMsats |-> normalizeMsat(params.amountMsats),
                  state |-> "pending"]
  IN [entry EXCEPT
        !.subAccounts[subAccountId] =
           [@ EXCEPT !.invoices = Put(@, id, invoice),
                     !.pendingMsats = normalizeMsat(@ + invoice.amountMsats)]]

\* the first invoice with the invoice string, else the first with the payment hash
findInvoice(sub, tx) ==
  LET exact == {i \in DOMAIN sub.invoices :
                  tx.invoice # Null /\ sub.invoices[i].invoice = tx.invoice}
      byHash == {i \in DOMAIN sub.invoices :
                   /\ tx.payment_hash # Null
                   /\ sub.invoices[i].paymentHash # Null
                   /\ sub.invoices[i].paymentHash = tx.payment_hash}
      first(S) == CHOOSE i \in S : \A j \in S : i <= j
  IN IF exact # {} THEN first(exact)
     ELSE IF byHash # {} THEN first(byHash) ELSE Null

settleInvoice(sub, id, tx) ==
  LET invoice == sub.invoices[id]
      previousState == invoice.state
      state == IF tx.state \in {"settled", "failed", "expired"}
               THEN tx.state ELSE previousState
  IN IF state = "settled" /\ previousState # "settled"
     THEN [sub EXCEPT !.pendingMsats = normalizeMsat(@ - invoice.amountMsats),
                      !.balanceMsats = normalizeMsat(@ + invoice.amountMsats),
                      !.invoices[id].state = "settled"]
     ELSE IF state \in {"failed", "expired"} /\ previousState = "pending"
     THEN [sub EXCEPT !.pendingMsats = normalizeMsat(@ - invoice.amountMsats),
                      !.invoices[id].state = state]
     ELSE sub

\* the first sub-account, in the entry's order, holding a matching invoice
MatchedSubAccount(entry, tx) ==
  LET subs == {sub \in DOMAIN entry.subAccounts :
                 findInvoice(entry.subAccounts[sub], tx) # Null}
  IN IF subs = {} THEN Null ELSE CHOOSE sub \in subs : \A other \in subs : sub <= other

applyIncomingTransaction(entry, tx) ==
  LET subId == MatchedSubAccount(entry, tx)
  IN IF subId = Null THEN entry
     ELSE [entry EXCEPT !.subAccounts[subId] =
             settleInvoice(@, findInvoice(@, tx), tx)]

\* POST /api/getInvoice for a sub-account: the upstream's new invoice h is
\* registered, while the msats held or awaited stay within MaxBalance
ApiGetInvoice(sub, h, withHash, amount) ==
  /\ sub \in DOMAIN store.subAccounts
  /\ \A other \in DOMAIN store.subAccounts :
       \A i \in DOMAIN store.subAccounts[other].invoices :
         store.subAccounts[other].invoices[i].invoice # h
  /\ LET RECURSIVE total(_)
         total(S) ==
           IF S = {} THEN 0
           ELSE LET x == CHOOSE y \in S : TRUE
                IN store.subAccounts[x].balanceMsats
                     + store.subAccounts[x].pendingMsats + total(S \ {x})
     IN total(DOMAIN store.subAccounts) + amount <= MaxBalance
  /\ store' = storeRegisterPendingInvoice(store, sub,
                [invoice |-> h, paymentHash |-> IF withHash THEN h ELSE Null,
                 amountMsats |-> amount])
  /\ lastCall' = [op |-> "getInvoice", outcome |-> "ok"]
  /\ UNCHANGED <<db, reqs, nReq, lastDone, nextHash, routerVars, vaultVars,
                  registryVars, clock, lastNotify, settling>>

\* the ledger watcher's handler of a payment_received notification
processIncomingTransaction(tx) ==
  LET settled == applyIncomingTransaction(store, tx)
      subId == MatchedSubAccount(store, tx)
  IN /\ store' = IF tx.type # "incoming" THEN store ELSE settled
     /\ lastCall' = [op |-> "processIncomingTransaction",
                     outcome |-> IF tx.type # "incoming" \/ subId = Null
                                 THEN "none"
                                 ELSE IF settled.subAccounts[subId].balanceMsats
                                           > store.subAccounts[subId].balanceMsats
                                 THEN "credited" ELSE "matched"]
     /\ UNCHANGED <<db, reqs, nReq, lastDone, nextHash, routerVars, vaultVars,
                  registryVars, clock, lastNotify, settling>>

InitApi ==
  /\ db = EmptyDb
  /\ lastCall = NoCall
  /\ reqs = EmptyBag /\ nReq = 0 /\ lastDone = NoDone /\ nextHash = 1
  /\ NoEvents /\ serviceKeySet = {} /\ filter = {} /\ active = FALSE
  /\ contextsById = <<>> /\ contextsByServiceKey = <<>>
  /\ startPc = "idle" /\ loading = {}
  /\ VaultIdle
  /\ clock = 0 /\ lastNotify = NoNotify /\ settling = NoSettling
  /\ store = [subAccounts |->
                [sub \in WalletIds |->
                   [balanceMsats |-> 0, pendingMsats |-> 0, invoices |-> <<>>]]]

NextApi ==
  \/ \E sub \in WalletIds, h \in InvoiceIds, withHash \in BOOLEAN, amount \in Amounts :
       ApiGetInvoice(sub, h, withHash, amount)
  \/ \E tx \in [type : {"incoming", "outgoing"},
               state : {"absent", "pending", "settled", "failed", "expired"},
               invoice : {Null} \cup InvoiceIds,
               payment_hash : {Null} \cup InvoiceIds] : processIncomingTransaction(tx)

SpecApi == InitApi /\ [][NextApi]_vars

\* POST /api/payInvoice for a sub-account, up to the upstream call: withWallet loads
\* nwc.json, hasSufficientBalance looks at the loaded copy, and the request suspends in
\* wallet.payInvoice holding that copy
ApiPayInvoiceBegin(sub, amtMsats) ==
  /\ nReq < MaxRequests
  /\ nReq' = nReq + 1
  /\ sub \in DOMAIN store.subAccounts
  /\ IF store.subAccounts[sub].balanceMsats >= amtMsats
     THEN /\ reqs' = Suspend(Handler(sub, "payInvoice",
                                     [store |-> store, amtMsats |-> amtMsats]))
          /\ UNCHANGED lastCall
     ELSE /\ lastCall' = [op |-> "payInvoice", outcome |-> "Insufficient sub-account balance"]
          /\ UNCHANGED reqs
  /\ UNCHANGED <<db, store, lastDone, nextHash, routerVars, vaultVars,
                 registryVars, clock, lastNotify, settling>>

\* wallet.payInvoice returned: debitSubAccount on the loaded copy, markMutated, and
\* saveNwcStore writes the whole copy; a rejection leaves the file alone
ApiPayInvoiceReturn(h, upstreamOk) ==
  /\ Suspended(h, "payInvoice")
  /\ reqs' = Resume(h)
  /\ store' = IF upstreamOk
              THEN [h.arg.store EXCEPT !.subAccounts[h.wallet].balanceMsats =
                                         normalizeMsat(@ - h.arg.amtMsats)]
              ELSE store
  /\ lastCall' = [op |-> "payInvoice",
                  outcome |-> IF upstreamOk THEN "ok" ELSE "upstream_failure"]
  /\ UNCHANGED <<db, nReq, lastDone, nextHash, routerVars, vaultVars,
                 registryVars, clock, lastNotify, settling>>

\* invoices are issued and settled by the watcher while payments are requested
NextApiPay ==
  \/ \E sub \in WalletIds, h \in InvoiceIds, amount \in Amounts :
       ApiGetInvoice(sub, h, TRUE, amount)
  \/ \E h \in InvoiceIds :
       processIncomingTransaction([type |-> "incoming", state |-> "settled",
                                   invoice |-> Null, payment_hash |-> h])
  \/ \E sub \in WalletIds, amount \in Amounts : ApiPayInvoiceBegin(sub, amount)
  \/ \E h \in BagToSet(reqs), ok \in BOOLEAN : ApiPayInvoiceReturn(h, ok)

SpecApiPay == InitApi /\ [][NextApiPay]_vars

\* ------------------------------- manager: a payment notification, by statement
\* what a settlement leaves alone
settleFrame ==
  <<reqs, nReq, lastDone, nextHash, routerVars, vaultVars, registryVars, clock, store>>

CriteriaOf(notification) ==
  [paymentHash |-> notification.payment_hash, invoice |-> Null, descriptionHash |-> Null]

\* a handler that settles whatever matches, incoming or not
IgnoredUnmatched(d, notification) ==
  findPendingInvoice(d, CriteriaOf(notification)) = Null

\* the two early returns of the handler
Ignored(d, notification) ==
  \/ notification.type # "incoming"
  \/ findPendingInvoice(d, CriteriaOf(notification)) = Null

Owner(d, id) == d.pending_invoices[id].sub_account_id

\* a handler that forwards as soon as the row is marked settled
NextStepForwardFirst(pc) ==
  CASE pc = "update" -> "notify"
    [] pc = "notify" -> "refresh"
    [] pc = "refresh" -> "credit"
    [] OTHER -> "none"

\* the order of the handler's statements: UPDATE, refreshPendingAggregate,
\* adjustBalance, then the awaited service.notify
NextStep(pc) ==
  CASE pc = "update" -> "refresh"
    [] pc = "refresh" -> "credit"
    [] pc = "credit" -> "notify"
    [] OTHER -> "none"

Advance(s) ==
  IF NextStep(s.pc) = "none" THEN NoSettling ELSE [s EXCEPT !.pc = NextStep(s.pc)]

\* make_invoice registers the upstream's invoice h, of 1 msat, for sub-wallet w
IssueInvoice(h, w) ==
  /\ settling.pc \in {"none", "notify"}
  /\ CallRegisterPendingInvoice(h, w, 1, Null)
  /\ db' # db

\* the handler is called: it returns at once or goes on to settlePending
NotificationArrives(notification) ==
  LET id == findPendingInvoice(db, CriteriaOf(notification))
  IN /\ settling = NoSettling
     /\ IF Ignored(db, notification)
        THEN /\ settling' = NoSettling
             /\ lastCall' = [op |-> "payment_received", outcome |-> "ignored",
                             found |-> id]
        ELSE /\ Balance(db, Owner(db, id)) + db.pending_invoices[id].amount_msats
                  <= MaxBalance
             /\ settling' = [pc |-> "update", id |-> id,
                             amountMsats |-> db.pending_invoices[id].amount_msats,
                             balanceBefore |-> Balance(db, Owner(db, id))]
             /\ lastCall' = [op |-> "payment_received", outcome |-> "matched",
                             found |-> id]
     /\ UNCHANGED <<db, lastNotify, settleFrame>>

\* the UPDATE statement of updatePendingInvoiceState
SettleUpdate ==
  /\ settling.pc = "update"
  /\ db' = [db EXCEPT !.pending_invoices[settling.id].state = "settled",
                      !.pending_invoices[settling.id].settled_at = 1,
                      !.updated = Append(Without(db.updated, settling.id),
                                         settling.id)]
  /\ settling' = Advance(settling)
  /\ UNCHANGED <<lastCall, lastNotify, settleFrame>>

SettleRefresh ==
  /\ settling.pc = "refresh"
  /\ db' = refreshPendingAggregate(db, Owner(db, settling.id))
  /\ settling' = Advance(settling)
  /\ UNCHANGED <<lastCall, lastNotify, settleFrame>>

SettleCredit ==
  /\ settling.pc = "credit"
  /\ db' = adjustBalance(db, Owner(db, settling.id), settling.amountMsats)
  /\ settling' = Advance(settling)
  /\ UNCHANGED <<lastCall, lastNotify, settleFrame>>

\* contextsById.get(pending.subAccountId), then service.notify on that context
Forward ==
  LET a == Owner(db, settling.id)
  IN /\ settling.pc = "notify"
     /\ lastNotify' =
          IF a \in DOMAIN contextsById
          THEN [to |-> contextsById[a].id, id |-> settling.id,
                state |-> db.pending_invoices[settling.id].state,
                credited |-> Balance(db, a) - settling.balanceBefore]
          ELSE lastNotify
     /\ settling' = Advance(settling)
     /\ UNCHANGED <<db, lastCall, settleFrame>>

\* the process dies inside the handler and the manager is started again on the
\* database file as it is
Crash ==
  /\ settling.pc # "none"
  /\ settling' = NoSettling
  /\ lastCall' = [op |-> "crash", outcome |-> settling.pc, found |-> settling.id]
  /\ UNCHANGED <<db, lastNotify, settleFrame>>

NextSettle ==
  \/ \E h \in InvoiceIds, w \in WalletIds : IssueInvoice(h, w)
  \/ \E notification \in [type : {"incoming", "outgoing"},
                         payment_hash : {Null} \cup InvoiceIds] : NotificationArrives(notification)
  \/ SettleUpdate
  \/ SettleRefresh
  \/ SettleCredit
  \/ Forward
  \/ Crash

SpecSettle == InitRouter /\ [][NextSettle]_vars

\* ------------------------------------------------- storage: the vault in use
\* encryptBuffer(secret) with a fresh random iv; the envelope is stored
StoreSecret(x, iv) ==
  /\ plaintext' = x
  /\ payload' = encryptBuffer(masterKey, iv, x)
  /\ tampered' = "none"
  /\ opened' = [part \in Parts |-> NotOpened]
  /\ UNCHANGED <<masterKey, walletVars>>

\* one byte of the stored envelope is altered
AlterByte(pos, delta) ==
  /\ plaintext # <<>> /\ tampered = "none"
  /\ pos \in 1..Len(payload)
  /\ payload' = [payload EXCEPT ![pos] = (@ + delta) % 256]
  /\ tampered' = IF pos <= 2 THEN "header"
                 ELSE IF pos <= 2 + IV_LENGTH THEN "iv"
                 ELSE IF pos <= 2 + IV_LENGTH + AUTH_TAG_LENGTH THEN "tag"
                 ELSE "ciphertext"
  /\ UNCHANGED <<masterKey, plaintext, opened, walletVars>>

\* the stored envelope is cut down to fewer bytes than header, iv and tag take
Truncate(n) ==
  /\ plaintext # <<>> /\ tampered = "none"
  /\ n < 2 + IV_LENGTH + AUTH_TAG_LENGTH
  /\ payload' = SubSeq(payload, 1, n)
  /\ tampered' = "truncated"
  /\ UNCHANGED <<masterKey, plaintext, opened, walletVars>>

\* decryptBuffer(payload) on the stored envelope
LoadSecret ==
  /\ plaintext # <<>>
  /\ opened' = [opened EXCEPT ![tampered] = decryptBuffer(masterKey, payload)]
  /\ UNCHANGED <<masterKey, plaintext, payload, tampered, walletVars>>

InitVault ==
  /\ db = EmptyDb
  /\ lastCall = NoCall
  /\ reqs = EmptyBag
  /\ nReq = 0
  /\ lastDone = NoDone
  /\ nextHash = 1
  /\ RouterIdle
  /\ masterKey \in {Bytes(k, KeyLength) : k \in 0..MaxSeed}
  /\ plaintext = <<>>
  /\ payload = <<>>
  /\ tampered = "none"
  /\ opened = [part \in Parts |-> NotOpened]

NextVault ==
  \/ \E x \in 0..MaxSeed, r \in 0..MaxSeed :
       StoreSecret(Bytes(x + 1, SecretLength), Bytes(r + 2, IV_LENGTH))
  \/ \E pos \in 1..(2 + IV_LENGTH + AUTH_TAG_LENGTH + SecretLength),
        delta \in {1, 255} :
       AlterByte(pos, delta)
  \/ \E n \in {0, 1, 2 + IV_LENGTH, 1 + IV_LENGTH + AUTH_TAG_LENGTH} : Truncate(n)
  \/ LoadSecret

SpecVault == InitVault /\ [][NextVault]_vars

\* =================================================================== claims
Terminal == {"settled", "failed", "expired"}

\* C1 (aggregate consistency): in every reachable ledger state each sub-account's
\* pending_msats equals the sum of amount_msats over its invoices in state pending.
C1_AggregateConsistency ==
  \A a \in DOMAIN db.sub_accounts :
    db.sub_accounts[a].pending_msats = PendingTotal(db, a)

\* a sub-account with pending funds that also owns an invoice that left pending
C1_Witness ==
  \E a \in DOMAIN db.sub_accounts, i \in DOMAIN db.pending_invoices :
    /\ db.sub_accounts[a].pending_msats > 0
    /\ db.pending_invoices[i].sub_account_id = a
    /\ db.pending_invoices[i].state \in Terminal

\* C2 (non-negative balance): no sequence of requests and notifications leaves a
\* sub-account with balance_msats < 0.
C2_NonNegativeBalance ==
  \A w \in DOMAIN db.sub_accounts : Balance(db, w) >= 0

\* C3 (pay-invoice atomicity): a pay_invoice that returns success debited the resolved
\* amount exactly once, one that returns failure debited nothing; and no step lowers a
\* balance other than the completion of a successful pay_invoice, by its amount.
C3_PayInvoiceAtomicity ==
  /\ [](lastDone.method = "pay_invoice" =>
          /\ lastDone.outcome = "ok" =>
               lastDone.amountMsats > 0 /\ lastDone.debited = lastDone.amountMsats
          /\ lastDone.outcome # "ok" => lastDone.debited = 0)
  /\ [][\A w \in WalletIds :
          Balance(db', w) < Balance(db, w) =>
            /\ lastDone'.method = "pay_invoice" /\ lastDone'.outcome = "ok"
            /\ Balance(db, w) - Balance(db', w) = lastDone'.amountMsats]_vars

\* a pay_invoice returned success after debiting the whole balance of its sub-wallet
C3_Witness ==
  /\ lastDone.method = "pay_invoice" /\ lastDone.outcome = "ok"
  /\ lastDone.debited = MaxAmount
  /\ \E w \in WalletIds : Balance(db, w) = 0 /\ db.sub_accounts[w].usage_count >= 3

\* C4 (idempotent settlement): a payment_received notification or a settled lookup
\* result that matches an invoice already in a terminal state changes neither the
\* invoice's state nor any sub-account's balance_msats or pending_msats.
C4_IdempotentSettlement ==
  [][\A h \in InvoiceIds :
       ( /\ h \in DOMAIN db.pending_invoices
         /\ db.pending_invoices[h].state \in Terminal
         /\ \/ \E m \in {Null} \cup Amounts : PaymentReceived("incoming", h, m)
            \/ \E r \in BagToSet(reqs), m \in {Null} \cup Amounts :
                 r.arg = h /\ LookupInvoiceReturn(r, "settled", m) )
       => /\ db'.pending_invoices[h].state = db.pending_invoices[h].state
          /\ \A w \in WalletIds :
               /\ Balance(db', w) = Balance(db, w)
               /\ db'.sub_accounts[w].pending_msats = db.sub_accounts[w].pending_msats]_vars

\* C5 (router ordering): the events pushed to a sub-wallet's Endpoint are events
\* addressed to it, each pushed once, in the order the router observed them.
C5_RouterOrdering ==
  \A w \in ServiceKeys :
    /\ \A k \in 1..Len(handed[w]) :
         handed[w][k] \in 1..Len(arrived) /\ arrived[handed[w][k]].to = w
    /\ \A k, l \in 1..Len(handed[w]) : k < l => handed[w][k] < handed[w][l]

\* two events of one sub-wallet were pushed although an event of another one arrived
\* between them
C5_Witness ==
  \E w \in ServiceKeys :
    /\ Len(handed[w]) >= 2
    /\ \E j \in 1..Len(arrived) :
         arrived[j].to # w /\ handed[w][1] < j /\ j < handed[w][2]

\* C6 (serial processing): at most one request handler per sub-wallet is in progress
\* at any time.
C6_SerialPerSubWallet ==
  \A w \in WalletIds :
    BagCardinality([h \in {x \in BagToSet(reqs) : x.wallet = w} |-> reqs[h]]) <= 1

\* C7 (uniqueness): no two sub_accounts rows share a service_pubkey or a client_pubkey.
C7_UniquePubkeys ==
  \A a, b \in DOMAIN db.sub_accounts :
    a # b => /\ db.sub_accounts[a].service_pubkey # db.sub_accounts[b].service_pubkey
             /\ db.sub_accounts[a].client_pubkey # db.sub_accounts[b].client_pubkey

\* a creation was rejected while several rows exist
C7_Witness ==
  /\ lastCall.op = "createSubAccount" /\ lastCall.outcome = "error"
  /\ Cardinality(DOMAIN db.sub_accounts) >= 2

\* C8 (envelope round-trip): decryptBuffer of an unaltered encryptBuffer(x) returns x
\* exactly, and decryptBuffer of an envelope with an altered iv, tag or ciphertext
\* byte fails authentication and returns no plaintext.
C8_EnvelopeRoundTrip ==
  /\ opened["none"] # NotOpened => opened["none"] = Returned(plaintext)
  /\ \A part \in {"iv", "tag", "ciphertext"} :
       opened[part] # NotOpened => opened[part] = Thrown(AuthFailure)

\* a 32-byte secret came back unchanged, and after a byte of its stored ciphertext
\* was altered the same envelope was refused
C8_Witness ==
  /\ Len(plaintext) = SecretLength
  /\ opened["none"] = Returned(plaintext)
  /\ tampered = "ciphertext" /\ opened["ciphertext"] = Thrown(AuthFailure)

\* C9 (adjust_balance guard): a debit larger than the balance is refused; no decrease
\* of balance_msats ever writes a negative balance.
C9_NoNegativeWrite ==
  [][\A a \in DOMAIN db.sub_accounts \cap DOMAIN db'.sub_accounts :
       Balance(db', a) < Balance(db, a) => Balance(db', a) >= 0]_vars

\* C10 (invoice state machine): an invoice in a terminal state is never changed again
\* by update_pending_invoice_state.
C10_TerminalAbsorbing ==
  [][\A i \in DOMAIN db.pending_invoices \cap DOMAIN db'.pending_invoices :
       db.pending_invoices[i].state \in Terminal =>
         db'.pending_invoices[i] = db.pending_invoices[i]]_vars

\* the invoices of database d that prune_expired(now) is to expire
Due(d, now) ==
  {i \in DOMAIN d.pending_invoices :
     /\ d.pending_invoices[i].state = "pending"
     /\ d.pending_invoices[i].expires_at # Null
     /\ d.pending_invoices[i].expires_at <= now}

\* C11 (prune_expired): after prune_expired(now) every invoice that was pending with
\* expires_at <= now is still in the ledger, in state expired, and every other invoice
\* is exactly as it was.
C11_PruneMarksExpired ==
  lastCall.op = "pruneExpiredPending" =>
    \A i \in DOMAIN lastCall.before.pending_invoices :
      /\ i \in DOMAIN db.pending_invoices
      /\ IF i \in Due(lastCall.before, lastCall.now)
         THEN db.pending_invoices[i].state = "expired"
         ELSE db.pending_invoices[i] = lastCall.before.pending_invoices[i]

\* C12 (sweep releases pending funds): after prune_expired(now) each sub-account's
\* pending_msats has decreased by the summed amount_msats of its invoices that were
\* pending with expires_at <= now, and every balance_msats is unchanged.
C12_SweepReleasesPending ==
  lastCall.op = "pruneExpiredPending" =>
    \A a \in DOMAIN lastCall.before.sub_accounts :
      /\ a \in DOMAIN db.sub_accounts
      /\ db.sub_accounts[a].pending_msats =
           lastCall.before.sub_accounts[a].pending_msats
           - SumAmounts({i \in Due(lastCall.before, lastCall.now) :
                           lastCall.before.pending_invoices[i].sub_account_id = a},
                        lastCall.before.pending_invoices)
      /\ db.sub_accounts[a].balance_msats = lastCall.before.sub_accounts[a].balance_msats

\* a sweep released pending funds of a sub-account that has a balance
C12_Witness ==
  /\ lastCall.op = "pruneExpiredPending"
  /\ \E a \in DOMAIN db.sub_accounts :
       /\ db.sub_accounts[a].balance_msats > 0
       /\ Due(lastCall.before, lastCall.now) # {}
       /\ db.sub_accounts[a].pending_msats < lastCall.before.sub_accounts[a].pending_msats

\* what a settlement or a sweep may change of the ledger: nothing but usage_count
SameFunds(d, e) ==
  /\ e.pending_invoices = d.pending_invoices
  /\ DOMAIN e.sub_accounts = DOMAIN d.sub_accounts
  /\ \A a \in DOMAIN d.sub_accounts :
       /\ e.sub_accounts[a].balance_msats = d.sub_accounts[a].balance_msats
       /\ e.sub_accounts[a].pending_msats = d.sub_accounts[a].pending_msats

\* C13 (insufficient balance): a pay_invoice whose resolved amount exceeds the
\* sub-wallet's balance_msats fails with insufficient_balance, starts no upstream call,
\* and leaves balances, pending totals and invoices as they were.
C13_InsufficientBalance ==
  [][\A w \in WalletIds, e \in {Null} \cup Amounts, f \in {Null} \cup Amounts :
       ( /\ nReq' = nReq + 1
         /\ resolveInvoiceAmount(e, f) # Null
         /\ Balance(db, w) < resolveInvoiceAmount(e, f)
         /\ RoutePayInvoice(w, e, f) )
       => /\ lastDone' = Done("pay_invoice", "insufficient_balance",
                              resolveInvoiceAmount(e, f), 0)
          /\ reqs' = reqs
          /\ SameFunds(db, db')]_vars

\* a pay_invoice for more than the sub-wallet holds was refused while nothing else
\* was in progress
C13_Witness ==
  /\ lastDone.method = "pay_invoice" /\ lastDone.outcome = "insufficient_balance"
  /\ reqs = EmptyBag
  /\ \E w \in WalletIds :
       /\ db.sub_accounts[w].usage_count > FundedDb.sub_accounts[w].usage_count
       /\ 0 < Balance(db, w) /\ Balance(db, w) < lastDone.amountMsats

\* the effect C14 requires of a trigger for payment hash h reporting amount m
SettledBy(h, m) ==
  LET row == db.pending_invoices[h]
      a   == row.sub_account_id
  IN /\ db'.pending_invoices[h].state = "settled"
     /\ db'.sub_accounts[a].pending_msats = db.sub_accounts[a].pending_msats - row.amount_msats
     /\ db'.sub_accounts[a].balance_msats =
          db.sub_accounts[a].balance_msats + (IF m # Null THEN m ELSE row.amount_msats)

\* C14 (settlement of a pending match): when a payment_received notification or a
\* settled lookup result matches an invoice in state pending, the invoice becomes
\* settled, its owner's pending_msats drops by the invoice's amount_msats and its
\* balance_msats grows by the reported amount, or by amount_msats when none is reported.
C14_SettlementOfPending ==
  [][\A h \in InvoiceIds, m \in {Null} \cup Amounts :
       ( /\ nReq' = nReq
         /\ h \in DOMAIN db.pending_invoices
         /\ db.pending_invoices[h].state = "pending"
         /\ \/ reqs' = reqs /\ PaymentReceived("incoming", h, m)
            \/ \E r \in BagToSet(reqs) :
                 /\ r.arg = h /\ r.method = "lookup_invoice"
                 /\ LookupInvoiceReturn(r, "settled", m) )
       => SettledBy(h, m)]_vars

\* an invoice issued during the run for MaxAmount was settled with a reported amount
\* of 1, and its owner holds exactly that
C14_Witness ==
  \E h \in DOMAIN db.pending_invoices :
    /\ h >= 2
    /\ db.pending_invoices[h].state = "settled"
    /\ db.pending_invoices[h].amount_msats = MaxAmount
    /\ db.pending_invoices[h].sub_account_id = 2
    /\ Balance(db, 2) = 1 /\ db.sub_accounts[2].pending_msats = 0

\* C15 (make_invoice registers iff the upstream succeeded): on success exactly one new
\* invoice exists, pending and owned by the requesting sub-wallet, whose pending_msats
\* grew by its amount while every balance is unchanged; on upstream failure the ledger
\* is unchanged.
C15_MakeInvoiceRegisters ==
  [][\A r \in {x \in BagToSet(reqs) : x.method = "make_invoice" /\ reqs' = Resume(x)} :
       /\ (\E m \in {Null} \cup Amounts, e \in Expiries : MakeInvoiceReturn(r, m, e)) =>
            \E n \in DOMAIN db'.pending_invoices \ DOMAIN db.pending_invoices :
              /\ DOMAIN db'.pending_invoices = DOMAIN db.pending_invoices \cup {n}
              /\ \A i \in DOMAIN db.pending_invoices :
                   db'.pending_invoices[i] = db.pending_invoices[i]
              /\ db'.pending_invoices[n].state = "pending"
              /\ db'.pending_invoices[n].sub_account_id = r.wallet
              /\ db'.pending_invoices[n].amount_msats > 0
              /\ \A a \in DOMAIN db.sub_accounts :
                   /\ Balance(db', a) = Balance(db, a)
                   /\ db'.sub_accounts[a].pending_msats =
                        db.sub_accounts[a].pending_msats
                        + (IF a = r.wallet THEN db'.pending_invoices[n].amount_msats ELSE 0)
       /\ MakeInvoiceReject(r) => db' = db]_vars

\* a make_invoice returned and its invoice is pending in the requester's ledger
C15_Witness ==
  /\ lastDone.method = "make_invoice" /\ lastDone.outcome = "ok"
  /\ \E n \in DOMAIN db.pending_invoices :
       /\ n >= 2
       /\ db.pending_invoices[n].state = "pending"
       /\ db.pending_invoices[n].amount_msats = lastDone.amountMsats
       /\ db.sub_accounts[db.pending_invoices[n].sub_account_id].pending_msats
            = lastDone.amountMsats

\* C16 (lookup_invoice reconciles only on settled): a settled lookup result that matches
\* a pending invoice settles and credits it; a result in any other state leaves the
\* ledger unchanged; either way the handler returns the upstream result.
C16_LookupReconciles ==
  [][\A r \in {x \in BagToSet(reqs) : x.method = "lookup_invoice" /\ reqs' = Resume(x)},
        st \in {"settled", "pending"}, m \in {Null} \cup Amounts :
       LookupInvoiceReturn(r, st, m) =>
         /\ lastDone' = Done("lookup_invoice", st, m, 0)
         /\ st # "settled" => db' = db
         /\ ( /\ st = "settled"
              /\ r.arg \in DOMAIN db.pending_invoices
              /\ db.pending_invoices[r.arg].state = "pending" ) => SettledBy(r.arg, m)]_vars

\* a lookup returned settled and the invoice it named, issued during the run, is
\* settled and credited
C16_Witness ==
  /\ lastDone.method = "lookup_invoice" /\ lastDone.outcome = "settled"
  /\ \E h \in DOMAIN db.pending_invoices :
       /\ h >= 2
       /\ db.pending_invoices[h].state = "settled"
       /\ Balance(db, db.pending_invoices[h].sub_account_id)
            > FundedDb.sub_accounts[db.pending_invoices[h].sub_account_id].balance_msats
       /\ reqs = EmptyBag

\* C17 (router failure isolation): a failed routeEvent call never ends the outer
\* subscription, and every event waiting in a group, whatever failed before it and in
\* whichever group, reaches its sub-wallet's Endpoint unless its own call fails.
C17_FailureIsolation ==
  /\ []active
  /\ \A i \in 1..MaxEvents : Waiting(i) ~> (Pushed(i) \/ Failed(i))

\* the first event failed; a later event of the same sub-wallet and a later event of
\* another sub-wallet were pushed to their Endpoints
C17_Witness ==
  /\ Len(arrived) >= 3
  /\ Failed(1)
  /\ \E i, j \in 2..Len(arrived) :
       /\ arrived[i].to = arrived[1].to /\ Pushed(i)
       /\ arrived[j].to # arrived[1].to /\ Pushed(j)

\* C18 (unaddressed events are dropped): an event without "p" tags, or whose "p" tags
\* name no sub-wallet's service key, enters no group, reaches no Endpoint and changes
\* nothing in the database, when it is observed and ever after.
C18_UnaddressedDropped ==
  /\ [][\A tags \in TagLists :
          ( /\ Len(arrived') = Len(arrived) + 1
            /\ \A j \in 1..Len(tags) : tags[j] \notin ActiveServiceKeys(db)
            /\ Observe(tags, Null) )
          => UNCHANGED <<queued, routing, handed, begun, db, reqs>>]_vars
  /\ [](\A i \in 1..Len(arrived) :
          arrived[i].to = Null => ~Waiting(i) /\ ~InRoute(i) /\ ~Pushed(i))

\* the first event named no sub-wallet, the second was pushed to its Endpoint, and
\* that push is the only use any sub-wallet has recorded
C18_Witness ==
  /\ Len(arrived) >= 2
  /\ arrived[1].to = Null
  /\ Pushed(2)
  /\ \E a \in DOMAIN db.sub_accounts :
       /\ db.sub_accounts[a].usage_count = 1
       /\ \A b \in DOMAIN db.sub_accounts \ {a} : db.sub_accounts[b].usage_count = 0

\* C19 (subscription refresh): once createSubAccount returned, the relay filter and
\* the resolver's key set hold the new service key, so an event tagged with a
\* sub-wallet's key first enters that sub-wallet's group; whenever the key set changes
\* the subscription is switched to it and the events in flight stay where they were.
C19_SubscriptionRefresh ==
  /\ [](ActiveServiceKeys(db) \subseteq filter /\ ActiveServiceKeys(db) \subseteq serviceKeySet)
  /\ [][serviceKeySet' # serviceKeySet
          => /\ filter' = serviceKeySet'
             /\ queued' = queued /\ routing' = routing /\ handed' = handed
             /\ active' = active]_vars
  /\ [][\A tags \in TagLists \ {<<>>} :
          ( /\ Len(arrived') = Len(arrived) + 1
            /\ Head(tags) \in ActiveServiceKeys(db)
            /\ Observe(tags, ClientOf(db, Head(tags))) )
          => queued' = [queued EXCEPT ![Head(tags)] = Append(@, Len(arrived) + 1)]]_vars

\* a sub-wallet was added while an event was in flight; that event and an event
\* addressed to the new sub-wallet were both pushed to their Endpoints
C19_Witness ==
  /\ lastCall.op = "createSubAccount" /\ lastCall.outcome = "ok"
  /\ \E i \in lastCall.inFlight : Pushed(i)
  /\ \E j \in 1..Len(arrived) : arrived[j].to = lastCall.key /\ Pushed(j)

\* C20 (request authentication): routing an event whose sender is not the client of
\* the sub-wallet it addresses changes no stored field of that sub-wallet and starts
\* no upstream call.
C20_RequestAuthentication ==
  [][\A w \in ServiceKeys, i \in 1..MaxEvents :
       ( /\ i \in routing[w]
         /\ arrived[i].pubkey # ClientOf(db, w)
         /\ RouteEnd(w, i) )
       => /\ db'.sub_accounts[SubAccountOf(db, w)] = db.sub_accounts[SubAccountOf(db, w)]
          /\ reqs' = reqs]_vars

\* C21 (get_balance is a pure read of funds): get_balance answers with the
\* sub-wallet's balance_msats as stored, starts no upstream call, and leaves every
\* balance_msats, pending_msats and pending invoice as it was.
C21_GetBalancePureRead ==
  [][\A w \in WalletIds :
       ( /\ nReq' = nReq + 1
         /\ RouteGetBalance(w) )
       => /\ lastDone' = Done("get_balance", "ok", db.sub_accounts[w].balance_msats, 0)
          /\ reqs' = reqs
          /\ SameFunds(db, db')]_vars

\* get_balance answered with the balance of a sub-wallet that holds funds and has an
\* invoice pending
C21_Witness ==
  /\ lastDone.method = "get_balance"
  /\ \E w \in WalletIds :
       /\ lastDone.amountMsats = Balance(db, w)
       /\ Balance(db, w) > 0
       /\ db.sub_accounts[w].pending_msats > 0

\* C22 (handlers touch on completion): when a pay_invoice, make_invoice or
\* lookup_invoice handler returns its result, it has recorded one more use of its
\* sub-wallet.
C22_HandlersTouch ==
  [][\A r \in BagToSet(reqs) :
       ( /\ r.method \in {"pay_invoice", "make_invoice", "lookup_invoice"}
         /\ reqs' = Resume(r)
         /\ lastDone'.method = r.method
         /\ lastDone'.outcome # "upstream_failure" )
       => db'.sub_accounts[r.wallet].usage_count
            = db.sub_accounts[r.wallet].usage_count + 1]_vars

\* an invoice that is pending although its expiry has passed
Overdue(h) ==
  /\ h \in DOMAIN db.pending_invoices
  /\ db.pending_invoices[h].state = "pending"
  /\ db.pending_invoices[h].expires_at # Null
  /\ db.pending_invoices[h].expires_at <= clock

\* C23 (expiry sweeper liveness): while the service runs, an invoice that is pending
\* past its expires_at eventually stops being pending, whatever the clients do.
C23_SweeperLiveness ==
  \A h \in InvoiceIds : Overdue(h) ~> ~Overdue(h)

\* sub-account a has one context, filed under its id and under its service key, and
\* its service key is in the key set and in the relay filter
Registered(a) ==
  LET key == db.sub_accounts[a].service_pubkey
  IN /\ a \in DOMAIN contextsById
     /\ key \in DOMAIN contextsByServiceKey
     /\ contextsById[a] = contextsByServiceKey[key]
     /\ contextsById[a] = [id |-> a, servicePubkey |-> key]
     /\ Cardinality({c \in {contextsById[b] : b \in DOMAIN contextsById}
                            \cup {contextsByServiceKey[k] :
                                    k \in DOMAIN contextsByServiceKey} :
                       c.id = a}) = 1
     /\ key \in serviceKeySet
     /\ key \in filter

C25_CleanCreateFailure ==
  [][( /\ lastCall'.op = "createSubAccount"
       /\ UNCHANGED <<startPc, loading, arrived, queued, routing, handed, begun>> )
     => /\ lastCall'.outcome = "error" =>
             UNCHANGED <<db, serviceKeySet, filter, contextsById, contextsByServiceKey>>
        /\ lastCall'.outcome = "ok" =>
             \E a \in DOMAIN db'.sub_accounts \ DOMAIN db.sub_accounts :
               /\ db'.sub_accounts[a].service_pubkey \in ServiceKeys
               /\ db'.sub_accounts[a].client_pubkey \in ServiceKeys
               /\ \A b \in DOMAIN db.sub_accounts :
                    /\ db.sub_accounts[b].service_pubkey
                         # db'.sub_accounts[a].service_pubkey
                    /\ db.sub_accounts[b].client_pubkey
                         # db'.sub_accounts[a].client_pubkey]_vars

\* on a started manager with three sub-accounts a creation failed on a taken key
C25_Witness ==
  /\ startPc = "done"
  /\ lastCall.op = "createSubAccount" /\ lastCall.outcome = "error"
  /\ lastCall.error = "Failed to create sub account"
  /\ Cardinality(DOMAIN db.sub_accounts) = 3
  /\ Cardinality(DOMAIN contextsById) = 3

\* C26 (automatic ledger updates): in the nwc.json ledger an incoming payment_received
\* notification that matches a pending sub-account invoice by invoice string or payment
\* hash settles it: the invoice becomes settled, the sub-account's pendingMsats drops by
\* the invoice's amount and its balanceMsats rises by it.
C26_AutoSettle ==
  [][\A tx \in [type : {"incoming", "outgoing"},
               state : {"absent", "pending", "settled", "failed", "expired"},
               invoice : {Null} \cup InvoiceIds,
               payment_hash : {Null} \cup InvoiceIds] :
       LET subId == MatchedSubAccount(store, tx)
           id == findInvoice(store.subAccounts[subId], tx)
           sub == store.subAccounts[subId]
       IN ( /\ lastCall'.op = "processIncomingTransaction"
            /\ tx.type = "incoming"
            /\ subId # Null
            /\ sub.invoices[id].state = "pending"
            /\ processIncomingTransaction(tx) )
          => /\ store'.subAccounts[subId].invoices[id].state = "settled"
             /\ store'.subAccounts[subId].pendingMsats
                  = sub.pendingMsats - sub.invoices[id].amountMsats
             /\ store'.subAccounts[subId].balanceMsats
                  = sub.balanceMsats + sub.invoices[id].amountMsats]_vars

\* C27 (match preference): when a trigger's identifiers match different pending
\* invoices, the one matching payment_hash is selected; if none matches payment_hash
\* the one matching the invoice string; if none matches that the one matching
\* description_hash; whatever the invoices' updated_at times.
C27_MatchPreference ==
  [][\A c \in [paymentHash : {Null} \cup InvoiceIds,
              invoice : {Null} \cup InvoiceIds,
              descriptionHash : {Null, 1}] :
       LET rows == db.pending_invoices
           byHash == {i \in DOMAIN rows :
                        c.paymentHash # Null /\ rows[i].payment_hash = c.paymentHash}
           byInvoice == {i \in DOMAIN rows :
                           c.invoice # Null /\ rows[i].invoice = c.invoice}
           byDescription == {i \in DOMAIN rows :
                               /\ c.descriptionHash # Null
                               /\ rows[i].description_hash = c.descriptionHash}
           found == lastCall'.found
       IN ( /\ lastCall'.op = "findPendingInvoice"
            /\ db' = db
            /\ CallFindPendingInvoice(c) )
          => /\ byHash # {} => found \in byHash
             /\ (byHash = {} /\ byInvoice # {}) => found \in byInvoice
             /\ (byHash = {} /\ byInvoice = {} /\ byDescription # {})
                  => found \in byDescription]_vars

\* C28 (ignored notifications): a payment_received notification whose type is not
\* incoming, or that matches no pending invoice, changes no invoice and no balance_msats
\* or pending_msats, and nothing is forwarded to any client.
C28_IgnoredNotification ==
  [][\A notification \in [type : {"incoming", "outgoing"},
                         payment_hash : {Null} \cup InvoiceIds] :
       ( /\ lastCall'.op = "payment_received"
         /\ settling = NoSettling
         /\ UNCHANGED <<db, lastNotify>>
         /\ \/ notification.type # "incoming"
            \/ \A i \in DOMAIN db.pending_invoices :
                 \/ notification.payment_hash = Null
                 \/ db.pending_invoices[i].payment_hash # notification.payment_hash
         /\ NotificationArrives(notification) )
       => /\ settling' = NoSettling
          /\ onPaymentReceived(db, [type |-> notification.type,
                                    payment_hash |-> notification.payment_hash,
                                    invoice |-> Null, description_hash |-> Null,
                                    amount |-> Null]) = db]_vars

\* an outgoing notification carrying the payment hash of a pending invoice was ignored
C28_Witness ==
  /\ lastCall.op = "payment_received"
  /\ lastCall.outcome = "ignored"
  /\ lastCall.found # Null
  /\ db.pending_invoices[lastCall.found].state = "pending"
  /\ settling = NoSettling
  /\ lastNotify = NoNotify

\* C29 (forwarding order): a payment_received notification is relayed only after the
\* matching invoice's settlement, pending decrement and balance credit are in the
\* ledger, and only through the Endpoint of the sub-wallet that owns the invoice.
C29_ForwardAfterCommit ==
  [][Forward =>
       LET id == settling.id
           a == Owner(db, id)
       IN /\ lastNotify'.id = id
          /\ lastNotify'.to = a
          /\ db.pending_invoices[id].state = "settled"
          /\ db.sub_accounts[a].pending_msats = PendingTotal(db, a)
          /\ Balance(db, a) = settling.balanceBefore + settling.amountMsats
          /\ db' = db]_vars

\* sub-wallet 2's client was notified of its settled invoice while sub-wallet 1
\* still waits for a payment
C29_Witness ==
  /\ lastNotify.to = 2
  /\ lastNotify.state = "settled"
  /\ lastNotify.credited > 0
  /\ Balance(db, 2) = lastNotify.credited
  /\ \E i \in DOMAIN db.pending_invoices :
       db.pending_invoices[i].sub_account_id = 1 /\ db.pending_invoices[i].state = "pending"

\* C30 (atomic settlement): the change pending -> settled, the decrement of pending_msats
\* and the credit of balance_msats are one step; the database recovered after a crash
\* during settlement never has the invoice settled without its credit, nor the credit
\* without the settlement.
C30_AtomicSettlement ==
  [][Crash =>
       LET id == settling.id
           a == Owner(db', id)
           credited == Balance(db', a) = settling.balanceBefore + settling.amountMsats
           settled == db'.pending_invoices[id].state = "settled"
       IN /\ settled <=> credited
          /\ db'.sub_accounts[a].pending_msats = PendingTotal(db', a)]_vars

\* C31: a sub-wallet's balance goes down in a step only when that step is the
\* return of a suspended pay_invoice handler of that sub-wallet whose upstream
\* call succeeded, and then by that payment's amount; and when the process dies
\* with handlers waiting for the upstream and start() runs again, no balance is
\* debited or credited.
C31_DebitFollowsSuccess ==
  [][/\ \A w \in WalletIds :
         Balance(db', w) < Balance(db, w)
           => \E h \in BagToSet(reqs) :
                /\ h.wallet = w
                /\ h.method = "pay_invoice"
                /\ reqs' = Resume(h)
                /\ lastDone' = Done("pay_invoice", "ok", h.arg, h.arg)
                /\ Balance(db', w) = Balance(db, w) - h.arg
     /\ (reqs # EmptyBag /\ reqs' = EmptyBag /\ lastDone'.outcome = "abandoned")
           => \A v \in WalletIds : Balance(db', v) = Balance(db, v)]_vars

\* the process died while a pay_invoice of sub-wallet 1 waited for the upstream, and
\* sub-wallet 1 still has all its funds
C31_Witness ==
  /\ lastDone = Done("pay_invoice", "abandoned", MaxAmount, 0)
  /\ reqs = EmptyBag
  /\ Balance(db, 1) = MaxAmount

\* C32: a handler that waits for the upstream wallet eventually completes, with the
\* upstream's answer or with a timeout error: whenever a sub-wallet has a handler
\* suspended in its upstream call, a later state has none of that sub-wallet's
\* handlers suspended.
C32_HandlerTimeout ==
  \A w \in WalletIds :
    (\E h \in BagToSet(reqs) : h.wallet = w) ~> (\A h \in BagToSet(reqs) : h.wallet # w)

\* C33: once stop() has returned, the ledger is not written any more: no step of a
\* stopped manager changes the database.
C33_ShutdownCancellation ==
  [][(startPc = "done" /\ ~active) => db' = db]_vars

\* C34: what the other sub-wallets' requests are doing never holds back a sub-wallet's
\* own: whenever a group has an event waiting and no routeEvent call of its own in
\* progress, its next routeEvent call can start, and whenever an Endpoint has an event
\* of its client pushed to it, its handler can start, whichever calls and handlers of
\* other sub-wallets are in progress.
C34_CrossWalletParallelism ==
  \A w \in ServiceKeys :
    /\ (active /\ queued[w] # <<>> /\ routing[w] = {}) => ENABLED RouteBegin(w)
    /\ (begun[w] < Len(handed[w]) /\ FromClient(w)) => ENABLED GetInfoBegin(w)

\* events arrived in the order A1, B1, A2; both handlers of A have completed while
\* the handler of B1 still waits for the upstream
C34_Witness ==
  \E a, b \in ServiceKeys :
    /\ a # b
    /\ Len(arrived) >= 3
    /\ arrived[1].to = a /\ arrived[2].to = b /\ arrived[3].to = a
    /\ begun[a] = 2 /\ begun[b] = 1
    /\ lastDone.method = "get_info"
    /\ \A h \in BagToSet(reqs) : h.wallet # SubAccountOf(db, a)
    /\ \E h \in BagToSet(reqs) : h.wallet = SubAccountOf(db, b)

\* C35: the lookup_invoice handler commits no settlement itself: the step in which a
\* lookup_invoice handler returns a settled result leaves the pending_invoices rows
\* and every balance as they were (the commit is a later step of another task).
C35_SettlementHandedOff ==
  [][( /\ lastDone'.method = "lookup_invoice"
       /\ lastDone'.outcome = "settled"
       /\ \E h \in BagToSet(reqs) : h.method = "lookup_invoice" /\ reqs' = Resume(h) )
     => /\ db'.pending_invoices = db.pending_invoices
        /\ \A w \in WalletIds : Balance(db', w) = Balance(db, w)]_vars

\* C36: the prune of start() leaves alone what has not expired: in the step that
\* completes start(), every pending invoice whose expires_at is later than the
\* current second is still there, still pending, and its owner's pending_msats is
\* still the sum of the owner's pending invoices, this one included.
C36_StartupPruneOnlyExpired ==
  [][(startPc = "loading" /\ startPc' = "done")
     => \A i \in DOMAIN db.pending_invoices :
          ( /\ db.pending_invoices[i].state = "pending"
            /\ db.pending_invoices[i].expires_at # Null
            /\ db.pending_invoices[i].expires_at > clock )
          => /\ i \in DOMAIN db'.pending_invoices
             /\ db'.pending_invoices[i].state = "pending"
             /\ db'.sub_accounts[db.pending_invoices[i].sub_account_id].pending_msats
                  = PendingTotal(db, db.pending_invoices[i].sub_account_id)]_vars

\* C37: no step that starts or completes the handler of a get_balance, get_info,
\* pay_invoice or make_invoice request of one sub-wallet changes the row (balance_msats,
\* pending_msats) of another sub-wallet; and no notification or settled lookup result
\* that matches an invoice changes the balance_msats of a sub-wallet other than the
\* invoice's owner.
C37_SubWalletIsolation ==
  [][/\ \A w \in WalletIds : \A v \in WalletIds \ {w} :
         db'.sub_accounts[v] # db.sub_accounts[v]
         => ~( /\ nReq' = nReq + 1
               /\ \/ RouteGetBalance(w)
                  \/ RouteGetInfo(w)
                  \/ \E e \in {Null} \cup Amounts, f \in {Null} \cup Amounts :
                       RoutePayInvoice(w, e, f)
                  \/ \E m \in Amounts : RouteMakeInvoice(w, m) )
     /\ \A r \in BagToSet(reqs) : \A v \in WalletIds \ {r.wallet} :
         db'.sub_accounts[v] # db.sub_accounts[v]
         => ~( /\ r.method \in {"get_info", "pay_invoice", "make_invoice"}
               /\ reqs' = Resume(r)
               /\ lastDone'.method = r.method /\ lastDone'.outcome # "abandoned" )
     /\ \A h \in DOMAIN db.pending_invoices :
         \A v \in WalletIds \ {db.pending_invoices[h].sub_account_id} :
           Balance(db', v) # Balance(db, v)
           => ~( \/ /\ nReq' = nReq /\ reqs' = reqs
                    /\ \E m \in {Null} \cup Amounts : PaymentReceived("incoming", h, m)
                 \/ \E r \in BagToSet(reqs), m \in {Null} \cup Amounts :
                      r.arg = h /\ LookupInvoiceReturn(r, "settled", m) )]_vars

\* sub-wallet 2 issued an invoice that was settled and holds its credit, sub-wallet 1
\* then paid an invoice out of its own funds
C37_Witness ==
  /\ lastDone = Done("pay_invoice", "ok", 1, 1)
  /\ Balance(db, 1) = MaxAmount - 1
  /\ Balance(db, 2) > 0
  /\ \E h \in DOMAIN db.pending_invoices :
       /\ db.pending_invoices[h].sub_account_id = 2
       /\ db.pending_invoices[h].state = "settled"

\* C38: balances move only by settlements and payments, each counted once: a step
\* that raises a sub-wallet's balance settles an invoice of that sub-wallet that was
\* pending before the step (so no invoice is credited twice and no credit lacks a
\* settled invoice), and a step that lowers it completes a successful pay_invoice of
\* that amount.
C38_BalanceConservation ==
  [][\A w \in WalletIds :
       /\ Balance(db', w) > Balance(db, w)
            => \E h \in DOMAIN db.pending_invoices :
                 /\ db.pending_invoices[h].sub_account_id = w
                 /\ db.pending_invoices[h].state = "pending"
                 /\ db'.pending_invoices[h].state = "settled"
       /\ Balance(db', w) < Balance(db, w)
            => lastDone' = Done("pay_invoice", "ok", Balance(db, w) - Balance(db', w),
                                Balance(db, w) - Balance(db', w))]_vars

\* C39: no sub-wallet ever has two WalletService instances: for every service key,
\* the instances being started by suspended ensureContext calls, plus the one the
\* registry holds, are at most one.
C39_OneEndpointPerSubWallet ==
  \A k \in ServiceKeys :
    Cardinality({h \in BagToSet(reqs) :
                   h.method = "ensureContext"
                   /\ db.sub_accounts[h.wallet].service_pubkey = k})
      + (IF k \in DOMAIN contextsByServiceKey THEN 1 ELSE 0) <= 1

\* C40: a payInvoice request of the HTTP API that succeeds takes its amount off the
\* sub-account's balance as nwc.json holds it when the request saves, and changes
\* nothing else in the file: what other requests and the ledger watcher saved in the
\* meantime is still there.
C40_NoLostLedgerUpdates ==
  [][\A h \in BagToSet(reqs) :
       ( /\ h.method = "payInvoice"
         /\ reqs' = Resume(h)
         /\ lastCall'.op = "payInvoice" /\ lastCall'.outcome = "ok" )
       => store' = [store EXCEPT !.subAccounts[h.wallet].balanceMsats =
                                   @ - h.arg.amtMsats]]_vars


====
